---- MODULE Spec2Model ----
(***************************************************************************)
(* A model of configMigrator's merge pipeline: the tree differ             *)
(* (src/src/diff_analyzer.py), the conflict-resolution merge engine        *)
(* (src/src/merge_engine.py), the network-annotation post-pass             *)
(* (src/src/network_preservation.py) and the migrate() driver              *)
(* (src/src/config_migrator.py, src/src/validators.py).                    *)
(*                                                                         *)
(* Strings that the code splits or joins on '.' are modelled as the        *)
(* sequence of their dot-free segments: "a.b" is <<"a","b">>, a key        *)
(* written with a dot is a two-segment key, and the empty string is        *)
(* <<"">>.  Python objects live on a heap of insertion-ordered dicts, so   *)
(* that aliasing between the inputs and the result is visible.             *)
(***************************************************************************)
EXTENDS Integers, Sequences, FiniteSets, TLC

VARIABLES
    pc,            \* position of the modelled call: "start", "merged", ...
    golden,        \* golden_config as passed to the call (a pure tree)
    templateOld,   \* template_old as passed
    templateNew,   \* template_new as passed
    migrationMap,  \* the rename map given to merge_configurations, or NoMap
    out,           \* what the call returned and what became of its inputs
    args,          \* the command line of a migrate run and the state of its files
    signals,       \* what the discovery strategies find: raw candidates, in order
    detector       \* the fields of a PathTransformationDetector

vars == <<pc, golden, templateOld, templateNew, migrationMap, out, args, signals, detector>>

\* PathTransformationDetector.__init__: path_value_map is a dict,
\* value_paths_map a dict of lists whose keys are kept in insertion order
NewDetector == [path_value_map |-> <<>>, value_paths_map |-> <<>>]

(***************************************************************************)
(* Values.  A scalar is a tagged record; a dict is a function from keys    *)
(* to values.  TypeOf is Python's type(v).                                 *)
(***************************************************************************)
StrVal(s) == [t |-> "str", s |-> s]
IntVal(n) == [t |-> "int", n |-> n]
None == [t |-> "none"]
Dict(f) == [t |-> "dict", m |-> f]
EmptyDict == Dict(<<>>)
Ref(i) == [t |-> "ref", id |-> i]
IsRef(c) == c.t = "ref"
IsNone(c) == c.t = "none"
TypeOf(c) == IF c.t = "ref" THEN "dict" ELSE c.t

EmptyStr == <<"">>

\* f"{prefix}.{key}" if prefix else key
JoinPath(prefix, key) == IF prefix = EmptyStr THEN key ELSE prefix \o key

\* target.startswith(p + ".")
StartsWithDot(target, p) ==
    /\ Len(target) > Len(p)
    /\ SubSeq(target, 1, Len(p)) = p

(***************************************************************************)
(* The heap: a sequence of dict objects, each with its keys in insertion   *)
(* order (ks) and its items (m); a cell is a scalar or a Ref to an object. *)
(***************************************************************************)
EmptyObj == [ks |-> <<>>, m |-> <<>>]

ObjSet(o, k, c) ==
    IF k \in DOMAIN o.m
    THEN [o EXCEPT !.m[k] = c]
    ELSE [ks |-> Append(o.ks, k), m |-> o.m @@ (k :> c)]

HeapSet(h, id, k, c) == [h EXCEPT ![id] = ObjSet(h[id], k, c)]

SortKeys(S, ord) == SelectSeq(ord, LAMBDA k : k \in S)

RECURSIVE Alloc(_, _, _)
RECURSIVE AllocKeys(_, _, _, _, _, _)
\* puts the pure tree v on the heap, its keys in the order ord
Alloc(h, v, ord) ==
    IF v.t # "dict" THEN [h |-> h, c |-> v]
    ELSE LET r == AllocKeys(h, v.m, SortKeys(DOMAIN v.m, ord), 1, EmptyObj, ord)
         IN  [h |-> Append(r.h, r.o), c |-> Ref(Len(r.h) + 1)]
AllocKeys(h, m, ks, i, o, ord) ==
    IF i > Len(ks) THEN [h |-> h, o |-> o]
    ELSE LET r == Alloc(h, m[ks[i]], ord)
         IN  AllocKeys(r.h, m, ks, i + 1, ObjSet(o, ks[i], r.c), ord)

RECURSIVE Pure(_, _)
\* the tree a cell denotes in heap h
Pure(h, c) ==
    IF IsRef(c) THEN Dict([k \in DOMAIN h[c.id].m |-> Pure(h, h[c.id].m[k])])
    ELSE c

RECURSIVE DeepCopy(_, _)
RECURSIVE DeepCopyKeys(_, _, _, _)
\* copy.deepcopy
DeepCopy(h, c) ==
    IF ~IsRef(c) THEN [h |-> h, c |-> c]
    ELSE LET r == DeepCopyKeys(h, h[c.id], 1, EmptyObj)
         IN  [h |-> Append(r.h, r.o), c |-> Ref(Len(r.h) + 1)]
DeepCopyKeys(h, src, i, o) ==
    IF i > Len(src.ks) THEN [h |-> h, o |-> o]
    ELSE LET r == DeepCopy(h, src.m[src.ks[i]])
         IN  DeepCopyKeys(r.h, src, i + 1, ObjSet(o, src.ks[i], r.c))

\* Python's == on two cells of one heap
PyEq(h, a, b) == Pure(h, a) = Pure(h, b)

(***************************************************************************)
(* DiffAnalyzer                                                            *)
(***************************************************************************)
RECURSIVE GetAllPaths(_, _, _)
GetAllPaths(h, c, prefix) ==
    UNION { LET cur == JoinPath(prefix, k)
                v == h[c.id].m[k]
            IN  {cur} \cup (IF IsRef(v) /\ h[v.id].ks # <<>>
                            THEN GetAllPaths(h, v, cur) ELSE {})
            : k \in DOMAIN h[c.id].m }

RECURSIVE SearchRecursive(_, _, _, _, _)
\* _search_recursive, from item i of current_data on; None when nothing is found
SearchRecursive(h, c, curPath, target, i) ==
    IF ~IsRef(c) THEN None
    ELSE IF i > Len(h[c.id].ks) THEN None
    ELSE LET k == h[c.id].ks[i]
             v == h[c.id].m[k]
             newPath == JoinPath(curPath, k)
         IN  IF newPath = target THEN v
             ELSE IF StartsWithDot(target, newPath) /\ IsRef(v)
             THEN LET r == SearchRecursive(h, v, newPath, target, 1)
                  IN  IF ~IsNone(r) THEN r
                      ELSE SearchRecursive(h, c, curPath, target, i + 1)
             ELSE SearchRecursive(h, c, curPath, target, i + 1)

TraversePathContextual(h, data, target) == SearchRecursive(h, data, EmptyStr, target, 1)

RECURSIVE SimpleTraverse(_, _, _, _)
\* the fallback loop of get_nested_value over path.split('.')
SimpleTraverse(h, cur, keys, i) ==
    IF i > Len(keys) THEN [exc |-> "none", c |-> cur]
    ELSE IF ~IsRef(cur) THEN [exc |-> "TypeError", c |-> None]
    ELSE IF <<keys[i]>> \notin DOMAIN h[cur.id].m THEN [exc |-> "KeyError", c |-> None]
    ELSE SimpleTraverse(h, h[cur.id].m[<<keys[i]>>], keys, i + 1)

get_nested_value(h, data, path) ==
    IF path = EmptyStr THEN [exc |-> "none", c |-> data]
    ELSE LET r == TraversePathContextual(h, data, path)
         IN  IF ~IsNone(r) THEN [exc |-> "none", c |-> r]
             ELSE SimpleTraverse(h, data, path, 1)

path_exists(h, data, path) == get_nested_value(h, data, path).exc = "none"

RECURSIVE SetWalk(_, _, _, _, _)
\* set_nested_value from key i of path.split('.') on, current being object cur
SetWalk(h, cur, keys, i, value) ==
    IF i = Len(keys) THEN [exc |-> "none", h |-> HeapSet(h, cur, <<keys[i]>>, value)]
    ELSE LET k == <<keys[i]>>
         IN  IF k \notin DOMAIN h[cur].m
             THEN LET h1 == Append(h, EmptyObj)
                      h2 == HeapSet(h1, cur, k, Ref(Len(h1)))
                  IN  SetWalk(h2, Len(h1), keys, i + 1, value)
             ELSE IF ~IsRef(h[cur].m[k]) THEN [exc |-> "TypeError", h |-> h]
             ELSE SetWalk(h, h[cur].m[k].id, keys, i + 1, value)

set_nested_value(h, data, path, value) ==
    IF path = EmptyStr THEN [exc |-> "ValueError", h |-> h]
    ELSE SetWalk(h, data.id, path, 1, value)

RECURSIVE ExtractRec(_, _, _, _, _, _)
\* _extract_custom_data_recursive from item i of golden.items() on; cd is
\* custom_data, an insertion-ordered dict from paths to cells
ExtractRec(h, g, t, cd, prefix, i) ==
    IF i > Len(h[g].ks) THEN cd
    ELSE LET k == h[g].ks[i]
             gv == h[g].m[k]
             cur == JoinPath(prefix, k)
             cd1 == IF k \notin DOMAIN h[t].m THEN ObjSet(cd, cur, gv)
                    ELSE IF IsRef(gv) /\ IsRef(h[t].m[k])
                    THEN ExtractRec(h, gv.id, h[t].m[k].id, cd, cur, 1)
                    ELSE IF ~PyEq(h, gv, h[t].m[k]) THEN ObjSet(cd, cur, gv)
                    ELSE cd
         IN  ExtractRec(h, g, t, cd1, prefix, i + 1)

extract_custom_data(h, goldenC, templateC) ==
    ExtractRec(h, goldenC.id, templateC.id, EmptyObj, EmptyStr, 1)

find_deleted_paths(h, old, new) ==
    GetAllPaths(h, old, EmptyStr) \ GetAllPaths(h, new, EmptyStr)

find_added_paths(h, old, new) ==
    GetAllPaths(h, new, EmptyStr) \ GetAllPaths(h, old, EmptyStr)

\* whether find_structural_changes records path (a path of both templates)
StructurallyChanged(h, old, new, path) ==
    LET ov == get_nested_value(h, old, path).c
        nv == get_nested_value(h, new, path).c
    IN  \/ TypeOf(ov) # TypeOf(nv)
        \/ /\ IsRef(ov) /\ IsRef(nv)
           /\ DOMAIN h[ov.id].m # DOMAIN h[nv.id].m

\* find_structural_changes: the paths it records; when a lookup of a common
\* path raises, nothing catches it there and exc is what was raised; when
\* lookups of both kinds fail, which one the iteration over the set of common
\* paths meets first is not determined and exc names both
find_structural_changes(h, old, new) ==
    LET common == GetAllPaths(h, old, EmptyStr) \cap GetAllPaths(h, new, EmptyStr)
        raised == { get_nested_value(h, old, p).exc : p \in common }
                    \cup { get_nested_value(h, new, p).exc : p \in common }
    IN  IF raised \subseteq {"none"}
        THEN [exc |-> "none",
              paths |-> { p \in common : StructurallyChanged(h, old, new, p) }]
        ELSE [exc |-> IF "TypeError" \notin raised THEN "KeyError"
                      ELSE IF "KeyError" \notin raised THEN "TypeError"
                      ELSE "KeyError or TypeError",
              paths |-> {}]

(***************************************************************************)
(* MergeEngine                                                             *)
(***************************************************************************)
NoEntry == [action_type |-> "none"]

_create_log_entry(path, action, source, target, newDefault, reason, review) ==
    [path |-> path, action_type |-> action, source_value |-> source,
     target_value |-> target, new_default_value |-> newDefault,
     reason |-> reason, manual_review |-> review]

\* the second half of Case 1: the STRUCTURAL_MISMATCH entry returned when the
\* value was not applied in the try block
StructuralFallback(h, path, custom, tnew) ==
    LET nd == IF path_exists(h, tnew, path)
              THEN get_nested_value(h, tnew, path).c ELSE None
    IN  _create_log_entry(path, "STRUCTURAL_MISMATCH", custom, nd, nd,
                          "structural mismatch prevents applying", TRUE)

\* _resolve_single_conflict: the heap after it, the entry it returns (NoEntry
\* for None) and the exception it lets through
_resolve_single_conflict(h, path, custom, final, tnew, told, structural) ==
    IF path \in structural
    THEN IF path_exists(h, tnew, path)
         THEN LET nd == get_nested_value(h, tnew, path).c
              IN  IF TypeOf(custom) = TypeOf(nd)
                  THEN LET w == set_nested_value(h, final, path, custom)
                       IN  IF w.exc = "none"
                           THEN [h |-> w.h, exc |-> "none",
                                 entry |-> _create_log_entry(path, "OVERWRITE", custom, custom, nd,
                                              "applied despite structural change", TRUE)]
                           ELSE IF w.exc = "TypeError"
                           THEN [h |-> w.h, exc |-> "none",
                                 entry |-> StructuralFallback(w.h, path, custom, tnew)]
                           ELSE [h |-> w.h, exc |-> w.exc, entry |-> NoEntry]
                  ELSE [h |-> h, exc |-> "none",
                        entry |-> _create_log_entry(path, "STRUCTURAL_MISMATCH", custom, nd, nd,
                                     "type change", TRUE)]
         ELSE [h |-> h, exc |-> "none", entry |-> StructuralFallback(h, path, custom, tnew)]
    ELSE IF path_exists(h, tnew, path)
    THEN LET nd == get_nested_value(h, tnew, path).c
             w == set_nested_value(h, final, path, custom)
         IN  IF w.exc = "none"
             THEN [h |-> w.h, exc |-> "none",
                   entry |-> IF ~PyEq(w.h, custom, nd)
                             THEN _create_log_entry(path, "OVERWRITE", custom, custom, nd,
                                      "custom value preserved", FALSE)
                             ELSE NoEntry]
             ELSE IF w.exc = "TypeError"
             THEN [h |-> w.h, exc |-> "none",
                   entry |-> _create_log_entry(path, "STRUCTURAL_MISMATCH", custom, None, None,
                                "failed to apply", TRUE)]
             ELSE [h |-> w.h, exc |-> w.exc, entry |-> NoEntry]
    ELSE [h |-> h, exc |-> "none",
          entry |-> _create_log_entry(path, "DELETED", custom, None, None,
                       "does not exist in new template", TRUE)]

RECURSIVE ResolveLoopNoContinue(_, _, _, _, _, _, _, _, _)
\* ResolveLoop without the "continue" after the entry for a deleted path: the
\* entry is also handed to _resolve_single_conflict
ResolveLoopNoContinue(h, cd, i, final, tnew, told, deleted, structural, log) ==
    IF i > Len(cd.ks) THEN [h |-> h, exc |-> "none", log |-> log]
    ELSE LET path == cd.ks[i]
             custom == cd.m[path]
             log1 == IF path \in deleted
                     THEN Append(log, _create_log_entry(path, "DELETED", custom, None, None,
                                          "removed in new template", TRUE))
                     ELSE log
             r == _resolve_single_conflict(h, path, custom, final, tnew, told, structural)
         IN  IF r.exc # "none" THEN [h |-> r.h, exc |-> r.exc, log |-> log1]
             ELSE ResolveLoopNoContinue(r.h, cd, i + 1, final, tnew, told, deleted, structural,
                      IF r.entry = NoEntry THEN log1 ELSE Append(log1, r.entry))

RECURSIVE ResolveLoop(_, _, _, _, _, _, _, _, _)
RECURSIVE ResolveNext(_, _, _, _, _, _, _, _, _)
\* the loop of resolve_conflicts from entry i of custom_data.items() on
ResolveLoop(h, cd, i, final, tnew, told, deleted, structural, log) ==
    IF i > Len(cd.ks) THEN [h |-> h, exc |-> "none", log |-> log]
    ELSE LET path == cd.ks[i]
             custom == cd.m[path]
         IN  IF path \in deleted
             THEN ResolveLoop(h, cd, i + 1, final, tnew, told, deleted, structural,
                      Append(log, _create_log_entry(path, "DELETED", custom, None, None,
                                      "removed in new template", TRUE)))
             ELSE ResolveNext(cd, i, final, tnew, told, deleted, structural, log,
                      _resolve_single_conflict(h, path, custom, final, tnew, told, structural))
\* the loop once _resolve_single_conflict has returned r for entry i
ResolveNext(cd, i, final, tnew, told, deleted, structural, log, r) ==
    IF r.exc # "none" THEN [h |-> r.h, exc |-> r.exc, log |-> log]
    ELSE ResolveLoop(r.h, cd, i + 1, final, tnew, told, deleted, structural,
             IF r.entry = NoEntry THEN log ELSE Append(log, r.entry))

\* resolve_conflicts from its loop on: cp is the deep copy of template_new,
\* deleted and sc what find_deleted_paths and find_structural_changes
\* returned.  The loop returns the heap, the log and the exception.
ResolveAnalysed(cd, tnew, told, cp, deleted, sc) ==
    IF sc.exc # "none"
    THEN [h |-> cp.h, exc |-> sc.exc, final |-> cp.c, log |-> <<>>,
          deleted |-> deleted, structural |-> {}]
    ELSE [final |-> cp.c, deleted |-> deleted, structural |-> sc.paths]
         @@ ResolveLoop(cp.h, cd, 1, cp.c, tnew, told, deleted, sc.paths, <<>>)

\* resolve_conflicts(custom_data, template_new, template_old); deleted and
\* structural are the two path sets it computed (the two analyses only read
\* the templates, which the copy leaves as they are)
resolve_conflicts(h, cd, tnew, told) ==
    ResolveAnalysed(cd, tnew, told, DeepCopy(h, tnew),
                    find_deleted_paths(h, told, tnew),
                    find_structural_changes(h, told, tnew))

RECURSIVE ApplyMigrationsLoop(_, _, _, _)
ApplyMigrationsLoop(cd, map, i, migrated) ==
    IF i > Len(cd.ks) THEN migrated
    ELSE LET oldPath == cd.ks[i]
             newPath == IF oldPath \in DOMAIN map THEN map[oldPath] ELSE oldPath
         IN  ApplyMigrationsLoop(cd, map, i + 1, ObjSet(migrated, newPath, cd.m[oldPath]))

apply_migrations(cd, map) == ApplyMigrationsLoop(cd, map, 1, EmptyObj)

(***************************************************************************)
(* NetworkPreservationEngine, under the rules _get_default_rules returns   *)
(* (every list of the rules empty): no path is network-critical, no        *)
(* annotation is excluded and no path is listed for preservation.          *)
(***************************************************************************)
\* atoms whose lower-case form contains "annotations"
AnnotationAtoms == {"annotations"}

\* any(ann_type in path.lower() for ann_type in [...])
IsAnnotationPath(path) == \E i \in 1..Len(path) : path[i] \in AnnotationAtoms

\* a sequence of the YAML document: its items are kept as written, no call
\* modelled here changes one
ListVal(items) == [t |-> "list", items |-> items]

\* f"{prefix}[{i}]"
IndexedPath(prefix, i) ==
    [prefix EXCEPT ![Len(prefix)] = @ \o "[" \o ToString(i) \o "]"]

\* the order in which the documents list the keys of a mapping
KeyOrder == <<<<"a">>, <<"b">>, <<"annotations">>, <<"a", "annotations">>, <<"c">>>>

RECURSIVE ItemConfigPaths(_, _)
\* _get_all_config_paths of a mapping written inside a sequence: parents
\* before their children, the keys in the order of the document
ItemConfigPaths(v, prefix) ==
    IF v.t = "dict"
    THEN LET ks == SortKeys(DOMAIN v.m, KeyOrder)
             Of(k) == <<JoinPath(prefix, k)>> \o ItemConfigPaths(v.m[k], JoinPath(prefix, k))
             From[i \in 1..(Len(ks) + 1)] ==
                 IF i > Len(ks) THEN <<>> ELSE Of(ks[i]) \o From[i + 1]
         IN  From[1]
    ELSE IF v.t = "list"
    THEN LET From[i \in 1..(Len(v.items) + 1)] ==
                 IF i > Len(v.items) THEN <<>>
                 ELSE (IF v.items[i].t = "dict"
                       THEN ItemConfigPaths(v.items[i], IndexedPath(prefix, i - 1))
                       ELSE <<>>) \o From[i + 1]
         IN  From[1]
    ELSE <<>>

RECURSIVE GetAllConfigPaths(_, _, _, _)
\* _get_all_config_paths from item i of config.items() on: a list, parents
\* before their children
GetAllConfigPaths(h, c, prefix, i) ==
    IF ~IsRef(c) THEN <<>>
    ELSE IF i > Len(h[c.id].ks) THEN <<>>
    ELSE LET k == h[c.id].ks[i]
             v == h[c.id].m[k]
             cur == JoinPath(prefix, k)
         IN  <<cur>> \o (IF v.t = "list" THEN ItemConfigPaths(v, cur)
                          ELSE GetAllConfigPaths(h, v, cur, 1))
                     \o GetAllConfigPaths(h, c, prefix, i + 1)

RECURSIVE NetGetWalk(_, _, _, _)
NetGetWalk(h, cur, keys, i) ==
    IF i > Len(keys) THEN cur
    ELSE IF IsRef(cur) /\ <<keys[i]>> \in DOMAIN h[cur.id].m
    THEN NetGetWalk(h, h[cur.id].m[<<keys[i]>>], keys, i + 1)
    ELSE None

\* NetworkPreservationEngine._get_nested_value: None when the path is missing
NetGetNestedValue(h, data, path) ==
    IF path = EmptyStr THEN data ELSE NetGetWalk(h, data, path, 1)

RECURSIVE NetSetWalk(_, _, _, _, _)
\* NetworkPreservationEngine._set_nested_value from key i on; a current that
\* is no dict makes the membership test or the item assignment raise
NetSetWalk(h, cur, keys, i, value) ==
    IF ~IsRef(cur) THEN [exc |-> "TypeError", h |-> h]
    ELSE IF i = Len(keys)
    THEN [exc |-> "none", h |-> HeapSet(h, cur.id, <<keys[i]>>, value)]
    ELSE LET k == <<keys[i]>>
         IN  IF k \notin DOMAIN h[cur.id].m
             THEN LET h1 == Append(h, EmptyObj)
                      h2 == HeapSet(h1, cur.id, k, Ref(Len(h1)))
                  IN  NetSetWalk(h2, Ref(Len(h1)), keys, i + 1, value)
             ELSE NetSetWalk(h, h[cur.id].m[k], keys, i + 1, value)

NetSetNestedValue(h, data, path, value) ==
    IF path = EmptyStr THEN [exc |-> "none", h |-> h]
    ELSE NetSetWalk(h, data, path, 1, value)

RECURSIVE AddItems(_, _, _)
\* for key, value in src.items(): dst[key] = value
AddItems(dst, src, i) ==
    IF i > Len(src.ks) THEN dst
    ELSE AddItems(ObjSet(dst, src.ks[i], src.m[src.ks[i]]), src, i + 1)

\* _filter_excluded_annotations: a dict comes back as a new dict
_filter_excluded_annotations(h, ann) ==
    IF IsRef(ann)
    THEN [h |-> Append(h, AddItems(EmptyObj, h[ann.id], 1)), c |-> Ref(Len(h) + 1)]
    ELSE [h |-> h, c |-> ann]

\* _merge_annotation_sources(old_annotations, new_annotations, path)
_merge_annotation_sources(h, old, new) ==
    IF IsNone(old) /\ ~IsNone(new) THEN _filter_excluded_annotations(h, new)
    ELSE IF ~IsNone(old) /\ IsNone(new) THEN _filter_excluded_annotations(h, old)
    ELSE IF IsNone(old) /\ IsNone(new) THEN [h |-> h, c |-> None]
    ELSE LET oldDict == IF IsRef(old) THEN h[old.id] ELSE EmptyObj
             newDict == IF IsRef(new) THEN h[new.id] ELSE EmptyObj
             disabled == IsRef(old) /\ h[old.id].ks = <<>>
             m1 == IF disabled THEN EmptyObj ELSE AddItems(EmptyObj, newDict, 1)
             merged == AddItems(m1, oldDict, 1)
         IN  IF merged.ks # <<>> THEN [h |-> Append(h, merged), c |-> Ref(Len(h) + 1)]
             ELSE IF disabled THEN [h |-> h, c |-> old]
             ELSE [h |-> Append(h, EmptyObj), c |-> Ref(Len(h) + 1)]

RECURSIVE MergeAnnotationsLoop(_, _, _, _, _, _)
\* the loop of _merge_network_annotations from annotation_paths[i] on
MergeAnnotationsLoop(h, goldenC, tnew, result, paths, i) ==
    IF i > Len(paths) THEN [exc |-> "none", h |-> h]
    ELSE LET path == paths[i]
             old == NetGetNestedValue(h, goldenC, path)
             new == NetGetNestedValue(h, tnew, path)
         IN  IF IsNone(old) /\ IsNone(new)
             THEN MergeAnnotationsLoop(h, goldenC, tnew, result, paths, i + 1)
             ELSE LET mg == _merge_annotation_sources(h, old, new)
                  IN  IF IsNone(mg.c)
                      THEN MergeAnnotationsLoop(mg.h, goldenC, tnew, result, paths, i + 1)
                      ELSE LET w == NetSetNestedValue(mg.h, result, path, mg.c)
                           IN  IF w.exc # "none" THEN w
                               ELSE MergeAnnotationsLoop(w.h, goldenC, tnew, result, paths, i + 1)

_merge_network_annotations(h, goldenC, tnew, result) ==
    MergeAnnotationsLoop(h, goldenC, tnew, result,
        SelectSeq(GetAllConfigPaths(h, result, EmptyStr, 1), IsAnnotationPath), 1)

\* preserve_network_config: merged_result.copy(), the (empty) loop over the
\* network-critical paths, _merge_network_annotations, and
\* _fix_array_annotations, which has no path to work on
preserve_network_config(h, goldenC, tnew, merged) ==
    [final |-> Ref(Len(h) + 1)]
    @@ _merge_network_annotations(Append(h, h[merged.id]), goldenC, tnew, Ref(Len(h) + 1))

(***************************************************************************)
(* MergeEngine.merge_configurations.  Beside what the call returns, the    *)
(* record keeps what resolve_conflicts returned (cell rfinal in heap rh)   *)
(* and the custom data it was given.                                       *)
(***************************************************************************)
\* merge_configurations once resolve_conflicts has returned r for the custom
\* data cd: the network post-pass returns the heap, the result and the
\* exception
MergeResolved(goldenC, tnew, cd, r) ==
    IF r.exc # "none"
    THEN [exc |-> r.exc, h |-> r.h, final |-> None, log |-> <<>>,
          cd |-> cd, rh |-> r.h, rfinal |-> None, rlog |-> <<>>,
          deleted |-> r.deleted, structural |-> r.structural]
    ELSE [log |-> r.log, cd |-> cd, rh |-> r.h, rfinal |-> r.final, rlog |-> r.log,
          deleted |-> r.deleted, structural |-> r.structural]
         @@ preserve_network_config(r.h, goldenC, tnew, r.final)

\* merge_configurations once the custom data cd is extracted and renamed
MergeCustomData(h, goldenC, told, tnew, cd) ==
    MergeResolved(goldenC, tnew, cd, resolve_conflicts(h, cd, tnew, told))

merge_configurations(h, goldenC, told, tnew, map) ==
    MergeCustomData(h, goldenC, told, tnew,
        IF DOMAIN map # {}
        THEN apply_migrations(extract_custom_data(h, goldenC, told), map)
        ELSE extract_custom_data(h, goldenC, told))

(***************************************************************************)
(* The documents the calls are tried on: templateOld is any tree at most   *)
(* MaxBase edits away from the empty document, golden a customisation of   *)
(* it (at most MaxCustom edits, and at most MaxEdits edits from the empty  *)
(* document) and templateNew a revision of it (at most MaxChange edits).   *)
(* One edit adds a key, replaces a value by a leaf or removes a key.       *)
(***************************************************************************)
MaxDepth == 2
MaxBase == 2
MaxCustom == 2
MaxEdits == 3
MaxChange == 1

Keys == {<<"a">>, <<"annotations">>, <<"a", "annotations">>}
Scalars == {StrVal("v"), StrVal("w"), None}
Leaves == Scalars \cup {EmptyDict}

RECURSIVE Edits(_, _)
\* the trees one edit away from v, d levels of keys being allowed in v
Edits(v, d) ==
    IF v.t # "dict" \/ d = 0 THEN {}
    ELSE LET m == v.m
         IN  { Dict(m @@ (k :> l)) : k \in Keys \ DOMAIN m, l \in Leaves }
             \cup { Dict([m EXCEPT ![kl[1]] = kl[2]]) : kl \in (DOMAIN m) \X Leaves }
             \cup { Dict([j \in DOMAIN m \ {k} |-> m[j]]) : k \in DOMAIN m }
             \cup UNION { { Dict([m EXCEPT ![k] = e]) : e \in Edits(m[k], d - 1) } : k \in DOMAIN m }

RECURSIVE Within(_, _)
\* the trees at most n edits away from v
Within(v, n) ==
    IF n = 0 THEN {v}
    ELSE LET S == Within(v, n - 1)
         IN  S \cup UNION { Edits(t, MaxDepth) : t \in S }

\* a log entry with the values its three value fields denote in heap h
PureEntry(h, e) ==
    [e EXCEPT !.source_value = Pure(h, @), !.target_value = Pure(h, @),
              !.new_default_value = Pure(h, @)]

PureLog(h, log) == [i \in 1..Len(log) |-> PureEntry(h, log[i])]

\* custom_data as the list of its (path, value) items
PureItems(h, cd) == [i \in 1..Len(cd.ks) |-> [path |-> cd.ks[i], value |-> Pure(h, cd.m[cd.ks[i]])]]

\* path q names a descendant of path p: q.startswith(p + ".")
IsDescendant(q, p) == Len(q) > Len(p) /\ SubSeq(q, 1, Len(p)) = p

RECURSIVE TreePaths(_, _)
\* the path of every key of the tree v
TreePaths(v, prefix) ==
    IF v.t # "dict" THEN {}
    ELSE UNION { {JoinPath(prefix, k)} \cup TreePaths(v.m[k], JoinPath(prefix, k))
                 : k \in DOMAIN v.m }

RECURSIVE AllPathsFrom(_, _)
\* _traverse of _get_all_paths: every key of a mapping, and the keys of the
\* non-empty mappings that are items of a sequence, under prefix[i]
AllPathsFrom(obj, prefix) ==
    IF obj.t = "dict"
    THEN UNION { {JoinPath(prefix, k)} \cup AllPathsFrom(obj.m[k], JoinPath(prefix, k))
                 : k \in DOMAIN obj.m }
    ELSE IF obj.t = "list"
    THEN UNION { IF obj.items[i].t = "dict" /\ obj.items[i] # EmptyDict
                 THEN AllPathsFrom(obj.items[i], IndexedPath(prefix, i - 1))
                 ELSE {}
                 : i \in DOMAIN obj.items }
    ELSE {}

\* DynamicStructuralDetector._get_all_paths
_get_all_paths(config) == AllPathsFrom(config, EmptyStr)

RECURSIVE ValuesAt(_, _)
\* the values the tree v holds at the places path p names
ValuesAt(v, p) ==
    IF v.t # "dict" THEN {}
    ELSE UNION { IF k = p THEN {v.m[k]}
                 ELSE IF IsDescendant(p, k)
                 THEN ValuesAt(v.m[k], SubSeq(p, Len(k) + 1, Len(p)))
                 ELSE {}
                 : k \in DOMAIN v.m }

\* the rename maps tried with golden document g: one entry, from a path of g
MaxBaseRenamed == 1
MaxCustomRenamed == 1
RenamePaths == {<<"a">>, <<"annotations">>, <<"a", "annotations">>}
RenameMaps(g) ==
    { (st[1] :> st[2]) : st \in { x \in TreePaths(g, EmptyStr) \X RenamePaths : x[1] # x[2] } }

\* a direct call of the library has no command line
NoArgs == <<>>

\* the smaller of two numbers
Min(x, y) == IF x <= y THEN x ELSE y

Init ==
    /\ pc = "start"
    /\ out = <<>>
    /\ detector = NewDetector
    /\ \/ /\ migrationMap = <<>>
          /\ \E b \in 0..MaxBase :
                /\ templateOld \in Within(EmptyDict, b)
                /\ golden \in Within(templateOld, Min(MaxCustom, MaxEdits - b))
       \/ /\ templateOld \in Within(EmptyDict, MaxBaseRenamed)
          /\ golden \in Within(templateOld, MaxCustomRenamed)
          /\ migrationMap \in RenameMaps(golden)
    /\ templateNew \in Within(templateOld, MaxChange)
    /\ args = NoArgs
    /\ signals = <<>>

\* a caller runs extract_custom_data(golden, templateOld).  (The bound
\* variables g, o, r hold the values of their expressions, computed once.)
Extract ==
    /\ pc = "start"
    /\ \E g \in {Alloc(<<>>, golden, KeyOrder)} :
       \E o \in {Alloc(g.h, templateOld, KeyOrder)} :
       \E r \in {extract_custom_data(o.h, g.c, o.c)} :
           out' = [exc |-> "none",
                   customData |-> PureItems(o.h, r),
                   goldenAfter |-> Pure(o.h, g.c),
                   oldAfter |-> Pure(o.h, o.c)]
    /\ pc' = "extracted"
    /\ UNCHANGED <<golden, templateOld, templateNew, migrationMap, args, signals, detector>>

\* a caller runs merge_configurations on the three documents and the map
Merge ==
    /\ pc = "start"
    /\ \E g \in {Alloc(<<>>, golden, KeyOrder)} :
       \E o \in {Alloc(g.h, templateOld, KeyOrder)} :
       \E n \in {Alloc(o.h, templateNew, KeyOrder)} :
       \E r \in {merge_configurations(n.h, g.c, o.c, n.c, migrationMap)} :
           out' = [exc |-> r.exc,
                   final |-> Pure(r.h, r.final),
                   log |-> PureLog(r.h, r.log),
                   customData |-> PureItems(n.h, r.cd),
                   rfinal |-> Pure(r.rh, r.rfinal),
                   rlog |-> PureLog(r.rh, r.rlog),
                   deleted |-> r.deleted,
                   structural |-> r.structural,
                   goldenAfter |-> Pure(r.h, g.c),
                   oldAfter |-> Pure(r.h, o.c),
                   newAfter |-> Pure(r.h, n.c)]
    /\ pc' = "merged"
    /\ UNCHANGED <<golden, templateOld, templateNew, migrationMap, args, signals, detector>>

Next == Extract \/ Merge

Spec == Init /\ [][Next]_vars

(***************************************************************************)
(* Properties of extract_custom_data and merge_configurations              *)
(***************************************************************************)
Extracted == pc = "extracted"
Merged == pc = "merged"
Returned == Merged /\ out.exc = "none"
NoMap == DOMAIN migrationMap = {}

Deltas == { out.customData[i] : i \in DOMAIN out.customData }
DeltaPaths == { d.path : d \in Deltas }

\* the log entries about path P
EntriesOf(P) == { i \in DOMAIN out.log : out.log[i].path = P }
Logged(P, action, review) ==
    \E i \in EntriesOf(P) : /\ out.log[i].action_type = action
                            /\ out.log[i].manual_review = review

\* C1: merging a document with itself as both templates, with no rename
\* map, returns a final tree equal to the document and an empty log.
C1_IdentityMerge ==
    (Merged /\ golden = templateOld /\ templateOld = templateNew /\ NoMap)
        => (out.exc = "none" /\ out.final = golden /\ out.log = <<>>)

\* the paths present in templateOld and absent from templateNew
RemovedPaths == TreePaths(templateOld, EmptyStr) \ TreePaths(templateNew, EmptyStr)

RECURSIVE AbsentRoots(_, _, _)
\* the (path, subtree) of every key of g that t lacks, t being followed where
\* both hold a mapping
AbsentRoots(g, t, prefix) ==
    UNION { LET cur == JoinPath(prefix, k)
            IN  IF k \notin DOMAIN t.m THEN {[path |-> cur, value |-> g.m[k]]}
                ELSE IF g.m[k].t = "dict" /\ t.m[k].t = "dict"
                THEN AbsentRoots(g.m[k], t.m[k], cur)
                ELSE {}
            : k \in DOMAIN g.m }

\* C3: the delta set extract_custom_data returns never holds both a path
\* and a descendant of it, and a subtree absent from the template is
\* returned at its root, whole.
C3_NoParentAndChild ==
    Extracted =>
        /\ \A d, e \in Deltas : ~IsDescendant(e.path, d.path)
        /\ AbsentRoots(golden, templateOld, EmptyStr) \subseteq Deltas

\* C4: after merge_configurations, golden, templateOld and templateNew are
\* what they were before the call.
C4_InputsNotMutated ==
    Merged => (out.goldenAfter = golden /\ out.oldAfter = templateOld
               /\ out.newAfter = templateNew)

\* C5: a delta whose path exists in templateNew and is no structural change
\* has its value at that path of the final tree, and an Overwrite entry not
\* marked for review exactly when the value differs from templateNew's.
C5_OverwriteApplied ==
    Returned =>
        \A d \in Deltas :
            (ValuesAt(templateNew, d.path) # {} /\ d.path \notin out.structural)
                => /\ ValuesAt(out.final, d.path) = {d.value}
                   /\ Logged(d.path, "OVERWRITE", FALSE)
                          <=> (ValuesAt(templateNew, d.path) # {d.value})

\* C6: a delta whose path find_deleted_paths reports gets a Deleted entry
\* marked for review and the final tree has no value at that path.
C6_DeletedNotWritten ==
    Returned =>
        \A d \in Deltas :
            d.path \in out.deleted
                => /\ Logged(d.path, "DELETED", TRUE)
                   /\ ValuesAt(out.final, d.path) = {}

\* C7: a delta whose path find_structural_changes reports is in the final
\* tree only if its type is that of templateNew's default there, and then
\* an Overwrite entry marked for review is logged; otherwise the final tree
\* keeps templateNew's default there and a StructuralMismatch entry marked
\* for review is logged.
C7_StructuralChange ==
    Returned =>
        \A d \in Deltas :
            d.path \in out.structural
                => IF ValuesAt(out.final, d.path) = {d.value}
                   THEN /\ \A nd \in ValuesAt(templateNew, d.path) : nd.t = d.value.t
                        /\ Logged(d.path, "OVERWRITE", TRUE)
                   ELSE /\ ValuesAt(out.final, d.path) = ValuesAt(templateNew, d.path)
                        /\ Logged(d.path, "STRUCTURAL_MISMATCH", TRUE)

\* C26: for every delta (relocated by the rename map when one is given),
\* after the merge either the final tree holds the delta's value at its
\* path or the conflict log has an entry for its path marked for manual
\* review, and the log never has more than one entry for a delta path.
C26_NoDeltaLostUnaccounted ==
    Returned =>
        \A d \in Deltas :
            /\ \/ d.value \in ValuesAt(out.final, d.path)
               \/ \E i \in EntriesOf(d.path) : out.log[i].manual_review
            /\ Cardinality(EntriesOf(d.path)) <= 1

\* C28: the merge keeps the new template's structure: every mapping path
\* of templateNew still exists in the final tree resolve_conflicts returns.
C28_TemplatePathsKept ==
    Returned => TreePaths(templateNew, EmptyStr) \subseteq TreePaths(out.rfinal, EmptyStr)

(***************************************************************************)
(* Input validation (src/src/validators.py).  The validator reads the      *)
(* files itself, so it works on the documents as written (pure trees).     *)
(* A list of error messages is modelled as the set of their kinds.         *)
(***************************************************************************)

\* ConfigValidator._get_all_paths_simple
_get_all_paths_simple(data) == TreePaths(data, EmptyStr)

\* the limit on the number of paths of a template
MaxTemplatePaths == 10000

\* ConfigValidator._validate_template_structure
_validate_template_structure(data) ==
    IF DOMAIN data.m = {} THEN {"template empty"}
    ELSE (IF Cardinality(DOMAIN data.m) < 2 THEN {"template too simple"} ELSE {})
         \cup (IF Cardinality(_get_all_paths_simple(data)) > MaxTemplatePaths
               THEN {"template too large"} ELSE {})

\* ConfigValidator._validate_yaml_file: the file is there, readable and
\* loads as a mapping, and a template has the expected structure
_validate_yaml_file(readable, data, isTemplate) ==
    IF ~readable THEN {"invalid yaml file"}
    ELSE IF isTemplate THEN _validate_template_structure(data)
    ELSE {}

\* ConfigValidator._check_template_compatibility: more than 50% extra paths
_check_template_compatibility(goldenC, told) ==
    LET golden_paths == _get_all_paths_simple(goldenC)
        extra_paths == golden_paths \ _get_all_paths_simple(told)
    IN  IF 2 * Cardinality(extra_paths) > Cardinality(golden_paths)
        THEN {"golden has many extra paths"} ELSE {}

\* ConfigValidator._check_template_similarity: less than 30% common paths
_check_template_similarity(told, tnew) ==
    LET old_paths == _get_all_paths_simple(told)
        new_paths == _get_all_paths_simple(tnew)
        total == Cardinality(old_paths \cup new_paths)
    IN  IF total > 0 /\ 10 * Cardinality(old_paths \cap new_paths) < 3 * total
        THEN {"templates have low similarity"} ELSE {}

\* ConfigValidator._validate_file_relationships
_validate_file_relationships(goldenC, told, tnew) ==
    (IF _check_template_compatibility(goldenC, told) # {}
     THEN {"golden incompatible with old template"} ELSE {})
    \cup _check_template_similarity(told, tnew)

\* the order in which a rename map file lists its keys
MapKeyOrder == <<<<"a">>, <<"b">>, <<"annotations">>, <<"a", "annotations">>,
                 <<"">>, <<"", "a">>, <<"a", "">>, <<"a", "", "b">>>>

RECURSIVE WalkChain(_, _, _)
\* the while loop of _check_circular_migrations: follow the map from
\* current_path until it leaves the map or meets the chain again
WalkChain(map, current_path, path_chain) ==
    IF current_path \notin DOMAIN map
    THEN [path_chain |-> path_chain, errors |-> {}]
    ELSE IF \E i \in DOMAIN path_chain : path_chain[i] = current_path
    THEN [path_chain |-> path_chain, errors |-> {"circular migration"}]
    ELSE WalkChain(map, map[current_path], Append(path_chain, current_path))

RECURSIVE CircularLoop(_, _, _, _)
\* the for loop of _check_circular_migrations over the keys of the map
CircularLoop(map, starts, i, visited) ==
    IF i > Len(starts) THEN {}
    ELSE IF starts[i] \in visited THEN CircularLoop(map, starts, i + 1, visited)
    ELSE LET w == WalkChain(map, starts[i], <<>>)
         IN  w.errors \cup CircularLoop(map, starts, i + 1,
                 visited \cup { w.path_chain[j] : j \in DOMAIN w.path_chain })

\* the cycle check left out (a changed program, for comparison)
NoCircularCheck(map) == {}

\* ConfigValidator._check_circular_migrations
_check_circular_migrations(map) ==
    CircularLoop(map, SortKeys(DOMAIN map, MapKeyOrder), 1, {})

\* path.startswith('.') or path.endswith('.') or '..' in path, for the
\* string whose dot-free segments are p
BadFormat(p) ==
    Len(p) > 1 /\ (p[1] = "" \/ p[Len(p)] = "" \/ \E i \in 2..(Len(p) - 1) : p[i] = "")

\* ConfigValidator.validate_migration_map
validate_migration_map(map) ==
    UNION { IF old_path = EmptyStr \/ map[old_path] = EmptyStr
            THEN {"empty path"}
            ELSE IF BadFormat(old_path) \/ BadFormat(map[old_path])
            THEN {"invalid path format"}
            ELSE {}
            : old_path \in DOMAIN map }
    \cup _check_circular_migrations(map)

\* ConfigValidator._validate_migration_map_file
_validate_migration_map_file(mapFile, map) ==
    IF mapFile = "object" THEN validate_migration_map(map)
    ELSE {"invalid migration map file"}

\* ConfigValidator.validate_input_files
validate_input_files(a, goldenC, told, tnew, map) ==
    LET errors == _validate_yaml_file(a.readable, goldenC, FALSE)
                  \cup _validate_yaml_file(a.readable, told, TRUE)
                  \cup _validate_yaml_file(a.readable, tnew, TRUE)
                  \cup (IF a.mapFile # "none"
                        THEN _validate_migration_map_file(a.mapFile, map) ELSE {})
    IN  IF errors = {} THEN _validate_file_relationships(goldenC, told, tnew)
        ELSE errors

\* ConfigValidator.validate_output_paths: nothing is written, at most the
\* directory of an output file is made
validate_output_paths(a) == IF a.writable THEN {} ELSE {"output not writable"}

\* ConfigMigrator._validate_inputs
_validate_inputs(a, goldenC, told, tnew, map) ==
    validate_input_files(a, goldenC, told, tnew, map) \cup validate_output_paths(a)

(***************************************************************************)
(* Dynamic discovery (src/src/dynamic_discovery).  How similar two paths   *)
(* or values are is not computed here: signals lists, in the order the     *)
(* four strategies run, what each measures for an orphaned path and a      *)
(* path of the new template, as a score in hundredths.  What the code      *)
(* does with a measurement (thresholds, review flags, ranking) is          *)
(* modelled as written.                                                    *)
(***************************************************************************)

\* self.auto_apply_threshold, in hundredths
auto_apply_threshold == 80

\* self.suggest_threshold, in hundredths
suggest_threshold == 50

\* the four strategies, in the order _analyze_migration_opportunity runs them
Strategies == <<"field_name", "value_pattern", "structural", "semantic_context">>

\* a MigrationCandidate
MigrationCandidate(new_path, type, score, review) ==
    [new_path |-> new_path, similarity_type |-> type,
     similarity_score |-> score, requires_human_review |-> review]

\* the measurements of one strategy for old_path, in the order made
Measured(sig, old_path, type, new_paths) ==
    SelectSeq(sig, LAMBDA m : m.old_path = old_path /\ m.type = type
                              /\ m.new_path \in new_paths /\ ~m.raises)

\* the strategy raises while it analyses old_path.  A signal that raises
\* names the path of the new template being examined, or the empty string
\* when the strategy raises before its loop over the new paths.  The
\* value-pattern strategy catches what is raised inside its loop
\* (except (KeyError, IndexError, TypeError): continue) and skips the path.
Raises(sig, old_path, type) ==
    \E i \in DOMAIN sig :
        /\ sig[i].raises
        /\ sig[i].old_path = old_path
        /\ sig[i].type = type
        /\ type = "value_pattern" => sig[i].new_path = EmptyStr

\* the candidates a strategy makes of the measurements it keeps, flagged
\* for review when the score is below the strategy's review level
Candidates(kept, type, reviewBelow) ==
    [i \in 1..Len(kept) |->
        MigrationCandidate(kept[i].new_path, type, kept[i].score, kept[i].score < reviewBelow)]

\* DynamicStructuralDetector._find_by_field_similarity
_find_by_field_similarity(sig, old_path, new_paths) ==
    Candidates(SelectSeq(Measured(sig, old_path, "field_name", new_paths),
                         LAMBDA m : m.score > 60),
               "field_name", 80)

\* DynamicStructuralDetector._find_by_value_pattern
_find_by_value_pattern(sig, old_path, new_paths) ==
    Candidates(SelectSeq(Measured(sig, old_path, "value_pattern", new_paths),
                         LAMBDA m : m.score > 50),
               "value_pattern", 70)

\* DynamicStructuralDetector._find_by_structural_similarity
_find_by_structural_similarity(sig, old_path, new_paths) ==
    Candidates(SelectSeq(Measured(sig, old_path, "structural", new_paths),
                         LAMBDA m : m.score > 40),
               "structural", 70)

\* DynamicStructuralDetector._find_by_semantic_context: a measurement is
\* there when the two paths are of the same semantic domain
_find_by_semantic_context(sig, old_path, new_paths) ==
    Candidates(Measured(sig, old_path, "semantic_context", new_paths),
               "semantic_context", 80)

RECURSIVE SortedDesc(_, _)
\* sorted(items, key=..., reverse=True) where score[i] is the key of
\* items[i]: highest first, equal keys in their original order
SortedDesc(items, score) ==
    IF items = <<>> THEN <<>>
    ELSE LET i == CHOOSE i \in DOMAIN items :
                      /\ \A j \in DOMAIN items : score[j] <= score[i]
                      /\ \A j \in 1..(i - 1) : score[j] < score[i]
             Rest(q) == SubSeq(q, 1, i - 1) \o SubSeq(q, i + 1, Len(q))
         IN  <<items[i]>> \o SortedDesc(Rest(items), Rest(score))

RECURSIVE BestCandidatesFirstSeen(_, _, _)
\* the loop keeping, per new_path, the first candidate seen whatever its
\* score (a changed program, for comparison)
BestCandidatesFirstSeen(candidates, i, best) ==
    IF i > Len(candidates) THEN best
    ELSE IF \E j \in DOMAIN best : best[j].new_path = candidates[i].new_path
    THEN BestCandidatesFirstSeen(candidates, i + 1, best)
    ELSE BestCandidatesFirstSeen(candidates, i + 1, Append(best, candidates[i]))

RECURSIVE BestCandidates(_, _, _)
\* the loop of _deduplicate_and_score_candidates: per new_path the first
\* candidate of the highest score, at the place of the first one seen
BestCandidates(candidates, i, best) ==
    IF i > Len(candidates) THEN best
    ELSE LET c == candidates[i]
             at == { j \in DOMAIN best : best[j].new_path = c.new_path }
         IN  IF at = {} THEN BestCandidates(candidates, i + 1, Append(best, c))
             ELSE LET j == CHOOSE j \in at : TRUE
                  IN  IF c.similarity_score > best[j].similarity_score
                      THEN BestCandidates(candidates, i + 1, [best EXCEPT ![j] = c])
                      ELSE BestCandidates(candidates, i + 1, best)

\* DynamicStructuralDetector._deduplicate_and_score_candidates
_deduplicate_and_score_candidates(candidates) ==
    LET best == BestCandidates(candidates, 1, <<>>)
    IN  SortedDesc(best, [j \in DOMAIN best |-> best[j].similarity_score])

\* no best candidate
NoCandidate == [new_path |-> EmptyStr, similarity_type |-> "none",
                similarity_score |-> 0, requires_human_review |-> FALSE]

\* DynamicStructuralDetector._analyze_migration_opportunity
_analyze_migration_opportunity(sig, old_path, new_paths) ==
    LET candidates == _deduplicate_and_score_candidates(
                          _find_by_field_similarity(sig, old_path, new_paths)
                          \o _find_by_value_pattern(sig, old_path, new_paths)
                          \o _find_by_structural_similarity(sig, old_path, new_paths)
                          \o _find_by_semantic_context(sig, old_path, new_paths))
    IN  [exc |-> IF \E k \in DOMAIN Strategies : Raises(sig, old_path, Strategies[k])
                 THEN "TypeError" ELSE "none",
         old_path |-> old_path,
         candidates |-> candidates,
         has_best |-> candidates # <<>>,
         best_candidate |-> IF candidates # <<>> THEN candidates[1] ELSE NoCandidate,
         confidence |-> IF candidates # <<>> THEN candidates[1].similarity_score ELSE 0]

\* DynamicStructuralDetector._find_orphaned_custom_data: the paths of the
\* custom data that do not exist in the new template, in order
_find_orphaned_custom_data(h, goldenC, told, tnew) ==
    SelectSeq(extract_custom_data(h, goldenC, told).ks,
              LAMBDA path : ~path_exists(h, tnew, path))

\* DynamicStructuralDetector._prioritize_migrations
_prioritize_migrations(migrations) ==
    SortedDesc(migrations, [j \in DOMAIN migrations |-> migrations[j].confidence])

\* DynamicStructuralDetector.discover_structural_migrations
discover_structural_migrations(h, goldenC, told, tnew, sig) ==
    LET orphaned == _find_orphaned_custom_data(h, goldenC, told, tnew)
        new_paths == _get_all_paths(Pure(h, tnew))
        analysed == [i \in 1..Len(orphaned) |->
                        _analyze_migration_opportunity(sig, orphaned[i], new_paths)]
    IN  IF \E i \in DOMAIN analysed : analysed[i].exc # "none"
        THEN [exc |-> "TypeError", migrations |-> <<>>]
        ELSE [exc |-> "none",
              migrations |-> _prioritize_migrations(
                                 SelectSeq(analysed, LAMBDA m : m.candidates # <<>>))]

\* auto-apply without the confidence test (a changed program, for comparison)
AutoApplyUnflagged(migrations) ==
    SelectSeq(migrations, LAMBDA m : m.has_best /\ ~m.best_candidate.requires_human_review)

\* DynamicStructuralDetector.get_auto_apply_migrations
get_auto_apply_migrations(migrations) ==
    SelectSeq(migrations, LAMBDA m : /\ m.confidence >= auto_apply_threshold
                                     /\ m.has_best
                                     /\ ~m.best_candidate.requires_human_review)

\* DynamicStructuralDetector.get_suggested_migrations
get_suggested_migrations(migrations) ==
    SelectSeq(migrations, LAMBDA m :
        \/ suggest_threshold <= m.confidence /\ m.confidence < auto_apply_threshold
        \/ m.has_best /\ m.best_candidate.requires_human_review)

\* MigrationSuggester.generate_migration_report: the three lists of the
\* report (its thresholds are the literals 0.8 and 0.5)
generate_migration_report(migrations) ==
    [auto_apply_migrations |->
         SelectSeq(migrations, LAMBDA m : /\ m.confidence >= 80
                                          /\ m.has_best
                                          /\ ~m.best_candidate.requires_human_review),
     review_required_migrations |->
         SelectSeq(migrations, LAMBDA m : /\ ~(/\ m.confidence >= 80
                                               /\ m.has_best
                                               /\ ~m.best_candidate.requires_human_review)
                                          /\ m.confidence >= 50),
     low_confidence_migrations |->
         SelectSeq(migrations, LAMBDA m : /\ ~(/\ m.confidence >= 80
                                               /\ m.has_best
                                               /\ ~m.best_candidate.requires_human_review)
                                          /\ m.confidence < 50)]

RECURSIVE CreateMapLoop(_, _, _)
\* the loop of create_migration_map (include_low_confidence is False)
CreateMapLoop(migrations, i, map) ==
    IF i > Len(migrations) THEN map
    ELSE LET m == migrations[i]
         IN  IF ~m.has_best \/ m.confidence < 50
             THEN CreateMapLoop(migrations, i + 1, map)
             ELSE CreateMapLoop(migrations, i + 1,
                      (m.old_path :> m.best_candidate.new_path) @@ map)

\* MigrationSuggester.create_migration_map
create_migration_map(migrations) == CreateMapLoop(migrations, 1, <<>>)

\* _run_dynamic_discovery once the discoveries are made: the map of the
\* auto-apply set (kept with the discoveries it was made from)
AutoApplied(discoveries) ==
    [discoveries |-> discoveries,
     migration_map |-> create_migration_map(get_auto_apply_migrations(discoveries))]

\* the try block of _run_dynamic_discovery once discovery has returned or
\* raised (d): except Exception prints a warning and returns {}
RunDiscovered(d) ==
    IF d.exc # "none" THEN [discoveries |-> <<>>, migration_map |-> <<>>]
    ELSE AutoApplied(d.migrations)

\* ConfigMigrator._run_dynamic_discovery
_run_dynamic_discovery(h, goldenC, told, tnew, sig) ==
    RunDiscovered(discover_structural_migrations(h, goldenC, told, tnew, sig))

(***************************************************************************)
(* The migrate() driver and the command line (src/src/config_migrator.py)  *)
(***************************************************************************)

\* what migrate() leaves behind when it stops before the merge
NotMerged(errors) ==
    [result |-> FALSE, errors |-> errors, merged |-> FALSE, exc |-> "none",
     discoveries |-> <<>>, discovered |-> <<>>, mergeMap |-> <<>>,
     final |-> EmptyDict, log |-> <<>>,
     configWritten |-> FALSE, logWritten |-> FALSE]

\* ConfigMigrator._load_files: the three documents on a fresh heap
_load_files(goldenDoc, oldDoc, newDoc) ==
    LET g == Alloc(<<>>, goldenDoc, KeyOrder)
        o == Alloc(g.h, oldDoc, KeyOrder)
    IN  [golden |-> g.c, old |-> o.c] @@ Alloc(o.h, newDoc, KeyOrder)

\* migrate() from step 5 on: merge_configurations has returned r
MigrateMerged(a, dyn, combined_migration_map, r) ==
    [result |-> r.exc = "none", errors |-> {}, merged |-> TRUE, exc |-> r.exc,
     discoveries |-> dyn.discoveries,
     discovered |-> dyn.migration_map,
     mergeMap |-> combined_migration_map,
     final |-> IF r.exc = "none" THEN Pure(r.h, r.final) ELSE EmptyDict,
     log |-> IF r.exc = "none" THEN PureLog(r.h, r.log) ELSE <<>>,
     configWritten |-> r.exc = "none" /\ ~a.dryRun,
     logWritten |-> r.exc = "none"]

\* migrate() step 4: the discovered map is laid over the user's,
\* {**(migration_map or {}), **dynamic_migration_map}, and the merge is run
MigrateDiscovered(a, f, migration_map, dyn) ==
    MigrateMerged(a, dyn, dyn.migration_map @@ migration_map,
        merge_configurations(f.h, f.golden, f.old, f.c,
            IF DOMAIN (dyn.migration_map @@ migration_map) # {}
            THEN dyn.migration_map @@ migration_map ELSE migration_map))

\* migrate() step 3: the files are loaded (f), discovery runs if enabled
MigrateLoaded(a, f, migration_map, sig) ==
    MigrateDiscovered(a, f, migration_map,
        IF a.discovery
        THEN _run_dynamic_discovery(f.h, f.golden, f.old, f.c, sig)
        ELSE [discoveries |-> <<>>, migration_map |-> <<>>])

\* ConfigMigrator.migrate, on the documents and the map the files hold
migrate(a, goldenDoc, oldDoc, newDoc, map, sig) ==
    IF _validate_inputs(a, goldenDoc, oldDoc, newDoc, map) # {}
    THEN NotMerged(_validate_inputs(a, goldenDoc, oldDoc, newDoc, map))
    ELSE MigrateLoaded(a, _load_files(goldenDoc, oldDoc, newDoc),
                       IF a.mapFile = "none" THEN <<>> ELSE map, sig)

(***************************************************************************)
(* The runs of the command line that are tried.  The old template has      *)
(* three keys; the production document and the new template are at most    *)
(* one edit away from it, or a document foreign to it.                     *)
(***************************************************************************)
PipelineOld == Dict((<<"a">> :> StrVal("v")) @@ (<<"b">> :> StrVal("v"))
                    @@ (<<"annotations">> :> StrVal("v")))

\* the production document in which a is customised
PipelineGolden == Dict((<<"a">> :> StrVal("w")) @@ (<<"b">> :> StrVal("v"))
                       @@ (<<"annotations">> :> StrVal("v")))

\* a new template that shares one path of four with the old one
ForeignTemplate == Dict((<<"a">> :> StrVal("v")) @@ (<<"a", "annotations">> :> StrVal("v")))

\* new templates that keep a, drop a, make a a mapping, and move a into the
\* first item of a sequence
Revisions ==
    { PipelineOld,
      Dict((<<"b">> :> StrVal("v")) @@ (<<"annotations">> :> StrVal("v"))),
      Dict((<<"a">> :> EmptyDict) @@ (<<"b">> :> StrVal("v"))
           @@ (<<"annotations">> :> StrVal("v"))),
      Dict((<<"b">> :> ListVal(<<Dict(<<"a">> :> StrVal("v"))>>))
           @@ (<<"annotations">> :> StrVal("v"))) }

\* rename maps as a user may write them: the paths a, b and the four
\* malformed kinds (empty, leading dot, trailing dot, doubled dot)
MaxMapSize == 2
MapPaths == {<<"a">>, <<"b">>, <<"">>, <<"", "a">>, <<"a", "">>, <<"a", "", "b">>}
UserMaps ==
    UNION { [D -> MapPaths] : D \in { X \in SUBSET MapPaths : Cardinality(X) <= MaxMapSize } }

\* what the strategies can measure: at most MaxSignals measurements for the
\* orphaned path a, the strategies in the order they run
MaxSignals == 2
Scores == {45, 65, 75, 85}
Measurements(tnew) ==
    { m \in [old_path : {<<"a">>}, new_path : _get_all_paths(tnew),
              type : { Strategies[k] : k \in DOMAIN Strategies }, score : Scores,
              raises : {FALSE}] :
          \* paths of one semantic domain score 0.6 at least
          /\ m.type = "semantic_context" => m.score >= 60
          \* _find_by_value_pattern measures the value get_nested_value
          \* finds at the path, and skips a path it cannot follow (one
          \* inside a sequence)
          /\ m.type = "value_pattern" => m.new_path \in TreePaths(tnew, EmptyStr) }
StrategyRank(type) == CHOOSE k \in DOMAIN Strategies : Strategies[k] = type
SignalLists(tnew) ==
    {<<>>} \cup { <<m>> : m \in Measurements(tnew) }
    \cup { <<mm[1], mm[2]>> : mm \in
             { x \in Measurements(tnew) \X Measurements(tnew) :
                   /\ StrategyRank(x[1].type) <= StrategyRank(x[2].type)
                   /\ <<x[1].type, x[1].new_path>> # <<x[2].type, x[2].new_path>>
                   /\ MaxSignals >= 2 } }

\* a production document with two customisations the new template that
\* drops a has no place for: a is customised, c is added
TwoOrphansGolden == Dict((<<"a">> :> StrVal("w")) @@ (<<"b">> :> StrVal("v"))
                         @@ (<<"annotations">> :> StrVal("v")) @@ (<<"c">> :> StrVal("w")))
DroppedA == Dict((<<"b">> :> StrVal("v")) @@ (<<"annotations">> :> StrVal("v")))

\* what the strategies can do for the orphaned paths a and c: measure a
\* score for a path of the new template, or raise (while examining a path
\* of the new template, or before)
OrphanSignals(tnew) ==
    { m \in [old_path : {<<"a">>, <<"c">>}, new_path : _get_all_paths(tnew),
              type : { Strategies[k] : k \in DOMAIN Strategies }, score : {65, 85},
              raises : {FALSE}] :
          m.type = "semantic_context" => m.score >= 60 }
    \cup [old_path : {<<"a">>, <<"c">>}, new_path : {<<"b">>, EmptyStr},
          type : { Strategies[k] : k \in DOMAIN Strategies }, score : {0},
          raises : {TRUE}]
OrphanSignalLists(tnew) ==
    { <<mm[1], mm[2]>> : mm \in
        { x \in OrphanSignals(tnew) \X OrphanSignals(tnew) :
              /\ x[1].old_path = <<"a">>
              /\ x[2].old_path = <<"c">>
              /\ MaxSignals >= 2 } }

InitMigrate ==
    /\ pc = "start"
    /\ out = <<>>
    /\ detector = NewDetector
    /\ templateOld = PipelineOld
    /\ \/ \* documents and files of every kind, no map, no discovery
          /\ golden \in Within(PipelineOld, 1) \cup Within(EmptyDict, 1)
          /\ templateNew \in Within(PipelineOld, 1) \cup {ForeignTemplate}
          /\ migrationMap = <<>>
          /\ signals = <<>>
          /\ args \in [readable : BOOLEAN, writable : BOOLEAN, mapFile : {"none", "unreadable"},
                       discovery : {FALSE}, dryRun : BOOLEAN]
       \/ \* rename maps of every kind
          /\ golden = PipelineGolden
          /\ templateNew \in Revisions
          /\ migrationMap \in UserMaps
          /\ signals = <<>>
          /\ args \in [readable : {TRUE}, writable : {TRUE}, mapFile : {"object"},
                       discovery : {FALSE}, dryRun : BOOLEAN]
       \/ \* discovery, with and without a map for the orphaned path
          /\ golden = PipelineGolden
          /\ templateNew \in Revisions
          /\ migrationMap \in {<<>>} \cup { (<<"a">> :> q) : q \in {<<"b">>, <<"annotations">>} }
          /\ signals \in SignalLists(templateNew)
          /\ args \in [readable : {TRUE}, writable : {TRUE}, mapFile : {"none", "object"},
                       discovery : {TRUE}, dryRun : {FALSE}]
          /\ args.mapFile = "none" <=> migrationMap = <<>>
       \/ \* discovery for two orphaned paths, with strategies that raise
          /\ golden = TwoOrphansGolden
          /\ templateNew = DroppedA
          /\ migrationMap = <<>>
          /\ signals \in OrphanSignalLists(templateNew)
          /\ args \in [readable : {TRUE}, writable : {TRUE}, mapFile : {"none"},
                       discovery : {TRUE}, dryRun : {FALSE}]

\* main(): run migrate() and exit with 0 if it returned True, else 1
Main ==
    /\ pc = "start"
    /\ args # NoArgs
    /\ \E r \in {migrate(args, golden, templateOld, templateNew, migrationMap, signals)} :
           out' = r @@ [exitCode |-> IF r.result THEN 0 ELSE 1]
    /\ pc' = "exited"
    /\ UNCHANGED <<golden, templateOld, templateNew, migrationMap, args, signals, detector>>

\* what a caller of the library gets for the discoveries d: the suggested
\* migrations of the detector and the report of the suggester
Suggested(d) ==
    [exc |-> d.exc,
     discoveries |-> d.migrations,
     suggested |-> IF d.exc = "none" THEN get_suggested_migrations(d.migrations) ELSE <<>>,
     report |-> generate_migration_report(IF d.exc = "none" THEN d.migrations ELSE <<>>)]

\* a caller of the library runs discover_structural_migrations on the three
\* documents, then get_suggested_migrations and generate_migration_report
\* on the discoveries
Suggest ==
    /\ pc = "start"
    /\ args # NoArgs
    /\ args.discovery
    /\ \E f \in {_load_files(golden, templateOld, templateNew)} :
           out' = Suggested(discover_structural_migrations(f.h, f.golden, f.old, f.c, signals))
    /\ pc' = "suggested"
    /\ UNCHANGED <<golden, templateOld, templateNew, migrationMap, args, signals, detector>>

\* a caller of the library runs the four strategies and then
\* _analyze_migration_opportunity for an orphaned path of the documents
Analyze ==
    /\ pc = "start"
    /\ args # NoArgs
    /\ args.discovery
    /\ \E f \in {_load_files(golden, templateOld, templateNew)} :
       \E orphaned \in {_find_orphaned_custom_data(f.h, f.golden, f.old, f.c)} :
       \E i \in DOMAIN orphaned :
       \E new_paths \in {_get_all_paths(templateNew)} :
           out' = [raw |-> _find_by_field_similarity(signals, orphaned[i], new_paths)
                           \o _find_by_value_pattern(signals, orphaned[i], new_paths)
                           \o _find_by_structural_similarity(signals, orphaned[i], new_paths)
                           \o _find_by_semantic_context(signals, orphaned[i], new_paths),
                   migration |-> _analyze_migration_opportunity(signals, orphaned[i],
                                                                new_paths)]
    /\ pc' = "analysed"
    /\ UNCHANGED <<golden, templateOld, templateNew, migrationMap, args, signals, detector>>

NextMigrate == Main \/ Suggest \/ Analyze

SpecMigrate == InitMigrate /\ [][NextMigrate]_vars

(***************************************************************************)
(* Properties of the migrate() pipeline                                    *)
(***************************************************************************)
Exited == pc = "exited"

\* the rename map the user supplied on the command line, if any
UserMap == IF args.mapFile = "object" THEN migrationMap ELSE <<>>

\* C8: when the user's rename map and the discovered rename map hold the
\* same old path with different targets, the map used for the merge maps
\* that old path to the user's target.
C8_UserMapWins ==
    (Exited /\ out.merged) =>
        \A P \in DOMAIN UserMap \cap DOMAIN out.discovered :
            UserMap[P] # out.discovered[P] => out.mergeMap[P] = UserMap[P]

RECURSIVE Reaches(_, _, _, _)
\* following the map from p for n renames at most arrives at q
Reaches(map, p, q, n) ==
    n > 0 /\ p \in DOMAIN map /\ (map[p] = q \/ Reaches(map, map[p], q, n - 1))

\* the map renames some path, in one or more steps, to itself
HasCycle(map) == \E p \in DOMAIN map : Reaches(map, p, p, Cardinality(DOMAIN map))

\* the path is empty, starts or ends with the separator or doubles it:
\* one of its segments is empty
Malformed(p) == \E i \in DOMAIN p : p[i] = ""

HasMalformedPath(map) == \E p \in DOMAIN map : Malformed(p) \/ Malformed(map[p])

\* C9: when the supplied migration map contains a cycle or a malformed
\* path, migrate() returns False and the process exits with code 1, no
\* merge having been performed, and neither the output configuration nor
\* the conflict log is written.
C9_BadMapAborts ==
    (Exited /\ args.mapFile = "object"
        /\ (HasCycle(migrationMap) \/ HasMalformedPath(migrationMap))) =>
        /\ ~out.result
        /\ out.exitCode = 1
        /\ ~out.merged
        /\ ~out.configWritten
        /\ ~out.logWritten

\* a run with a cyclic map of well-formed paths and valid documents has exited
C9_Witness ==
    /\ Exited
    /\ args.mapFile = "object"
    /\ HasCycle(migrationMap)
    /\ ~HasMalformedPath(migrationMap)
    /\ Cardinality(DOMAIN migrationMap) = 2
    /\ out.errors = {"circular migration"}
    /\ out.exitCode = 1

\* C10: with discovery enabled, every pair of the rename map given to the
\* merge that the user did not supply comes from a discovered migration
\* whose confidence is at least 0.8 and whose best candidate is not flagged
\* for review; a migration with lower confidence or a flagged best
\* candidate is never auto-applied.
C10_OnlyAutoApplySet ==
    (Exited /\ out.merged /\ args.discovery) =>
        /\ \A P \in DOMAIN out.mergeMap :
              (P \notin DOMAIN UserMap \/ UserMap[P] # out.mergeMap[P]) =>
                  \E i \in DOMAIN out.discoveries :
                      /\ out.discoveries[i].old_path = P
                      /\ out.discoveries[i].best_candidate.new_path = out.mergeMap[P]
                      /\ out.discoveries[i].confidence >= 80
                      /\ ~out.discoveries[i].best_candidate.requires_human_review
        /\ \A i \in DOMAIN out.discoveries :
              (\/ out.discoveries[i].confidence < 80
               \/ out.discoveries[i].best_candidate.requires_human_review) =>
                  out.discoveries[i].old_path \notin DOMAIN out.discovered

\* a run in which discovery ranked two candidates and auto-applied the best
C10_Witness ==
    /\ Exited
    /\ out.merged
    /\ args.discovery
    /\ DOMAIN out.discovered # {}
    /\ \E i \in DOMAIN out.discoveries : Len(out.discoveries[i].candidates) = 2

\* the customised paths of the production document that the new template
\* has no place for
OrphanedPaths ==
    LET f == _load_files(golden, templateOld, templateNew)
        orphaned == _find_orphaned_custom_data(f.h, f.golden, f.old, f.c)
    IN  { orphaned[i] : i \in DOMAIN orphaned }

\* some strategy raises while it analyses the orphaned path
FailsFor(old_path) ==
    \E k \in DOMAIN Strategies : Raises(signals, old_path, Strategies[k])

\* what the strategies find for the orphaned path
FoundFor(old_path) ==
    _analyze_migration_opportunity(signals, old_path, _get_all_paths(templateNew))

Migrations(list) == { list[i] : i \in DOMAIN list }

\* the migrations with 0.5 <= confidence < 0.8 or a best candidate flagged
\* for review
SuggestForReview ==
    { m \in Migrations(out.discoveries) :
          \/ 50 <= m.confidence /\ m.confidence < 80
          \/ m.has_best /\ m.best_candidate.requires_human_review }

\* C18: a discovered migration is in the suggest-for-review set exactly
\* when 0.5 <= confidence < 0.8 or its best candidate is flagged for review
\* regardless of score; the review_required_migrations list of the report
\* and get_suggested_migrations both select exactly this set, and a
\* migration below 0.5 that is not flagged is only reported as low
\* confidence.
C18_SameReviewSet ==
    (pc = "suggested" /\ out.exc = "none") =>
        /\ Migrations(out.suggested) = SuggestForReview
        /\ Migrations(out.report.review_required_migrations) = SuggestForReview
        /\ \A m \in Migrations(out.discoveries) :
              (m.confidence < 50 /\ ~m.best_candidate.requires_human_review) =>
                  /\ m \in Migrations(out.report.low_confidence_migrations)
                  /\ m \notin Migrations(out.report.review_required_migrations)
                  /\ m \notin Migrations(out.report.auto_apply_migrations)
                  /\ m \notin Migrations(out.suggested)

\* the scores the strategies gave the target path
ScoresGiven(new_path) ==
    { out.raw[i].similarity_score :
          i \in { j \in DOMAIN out.raw : out.raw[j].new_path = new_path } }

\* C21: after deduplication the candidate list of an orphan holds each
\* target path at most once (and every target a strategy proposed),
\* carrying the maximum score any strategy gave that target; the list is
\* sorted by descending score, the best candidate is its first element and
\* the confidence of the migration is the best candidate's score, 0 when
\* there is no candidate.
C21_DeduplicatedAndSorted ==
    pc = "analysed" =>
        /\ \A i, j \in DOMAIN out.migration.candidates :
              out.migration.candidates[i].new_path = out.migration.candidates[j].new_path
                  => i = j
        /\ { out.migration.candidates[i].new_path : i \in DOMAIN out.migration.candidates }
              = { out.raw[i].new_path : i \in DOMAIN out.raw }
        /\ \A i \in DOMAIN out.migration.candidates :
              /\ out.migration.candidates[i].similarity_score
                     \in ScoresGiven(out.migration.candidates[i].new_path)
              /\ \A sc \in ScoresGiven(out.migration.candidates[i].new_path) :
                     sc <= out.migration.candidates[i].similarity_score
              /\ i > 1 => out.migration.candidates[i].similarity_score
                              <= out.migration.candidates[i - 1].similarity_score
        /\ IF out.migration.candidates = <<>>
           THEN ~out.migration.has_best /\ out.migration.confidence = 0
           ELSE /\ out.migration.has_best
                /\ out.migration.best_candidate = out.migration.candidates[1]
                /\ out.migration.confidence = out.migration.candidates[1].similarity_score

\* an orphan analysed for which two strategies proposed the same target,
\* the second with the higher score, and one analysed with no candidate
C21_Witness ==
    /\ pc = "analysed"
    /\ Len(out.raw) = 2
    /\ out.raw[1].new_path = out.raw[2].new_path
    /\ out.raw[1].similarity_score < out.raw[2].similarity_score
    /\ Len(out.migration.candidates) = 1
    /\ out.migration.confidence = out.raw[2].similarity_score

\* C27: for every orphan that discovery auto-applies (old path renamed to
\* the target of its best candidate), the final tree the merge returns
\* holds the orphan's custom value at the target.
C27_AutoAppliedValueAtTarget ==
    (Exited /\ out.merged /\ out.result /\ args.discovery) =>
        \A P \in DOMAIN out.discovered :
            ValuesAt(golden, P) \subseteq ValuesAt(out.final, out.discovered[P])

(***************************************************************************)
(* The scores of the discovery strategies, computed as the code computes   *)
(* them.  A string is known by its characters (Spell); a path is the       *)
(* sequence of its dot-free parts, as everywhere.  A score is an exact     *)
(* fraction n/d in lowest terms.                                           *)
(***************************************************************************)

RECURSIVE GCD(_, _)
GCD(a, b) == IF b = 0 THEN a ELSE GCD(b, a % b)

\* the fraction n/d (n >= 0, d > 0) in lowest terms
Frac(n, d) == [n |-> n \div GCD(n, d), d |-> d \div GCD(n, d)]
FracAdd(x, y) == Frac(x.n * y.d + y.n * x.d, x.d * y.d)
FracMul(x, y) == Frac(x.n * y.n, x.d * y.d)
FracLess(x, y) == x.n * y.d < y.n * x.d
FracMin(x, y) == IF FracLess(y, x) THEN y ELSE x

\* the characters of the strings that occur as keys and values
Spell ==
       ("" :> <<>>)
    @@ ("service" :> <<"s", "e", "r", "v", "i", "c", "e">>)
    @@ ("port" :> <<"p", "o", "r", "t">>)
    @@ ("ports" :> <<"p", "o", "r", "t", "s">>)
    @@ ("db" :> <<"d", "b">>)
    @@ ("tier" :> <<"t", "i", "e", "r">>)
    @@ ("x" :> <<"x">>)
    @@ ("Port" :> <<"P", "o", "r", "t">>)
    @@ ("v" :> <<"v">>)
    @@ ("service-account" :> <<"s", "e", "r", "v", "i", "c", "e", "-", "a", "c", "c", "o", "u", "n", "t">>)
    @@ ("a" :> <<"a">>)
    @@ ("b" :> <<"b">>)
    @@ ("y" :> <<"y">>)
    @@ ("z" :> <<"z">>)
    @@ ("w" :> <<"w">>)
    @@ ("1" :> <<"1">>)
    @@ ("0a1b2c3d-0a1b-0a1b-0a1b-0a1b2c3d4e5f" :> <<"0", "a", "1", "b", "2", "c", "3", "d", "-", "0", "a", "1", "b", "-", "0", "a", "1", "b", "-", "0", "a", "1", "b", "-", "0", "a", "1", "b", "2", "c", "3", "d", "4", "e", "5", "f">>)
    @@ ("a\\d1" :> <<"a", "\\", "d", "1">>)
    @@ ("\\.io" :> <<"\\", ".", "i", "o">>)
    @@ ("l" :> <<"l">>)
    @@ ("l[0]" :> <<"l", "[", "0", "]">>)
    @@ ("l[1]" :> <<"l", "[", "1", "]">>)
    @@ ("l[2]" :> <<"l", "[", "2", "]">>)
    @@ ("l[3]" :> <<"l", "[", "3", "]">>)
    @@ ("l[4]" :> <<"l", "[", "4", "]">>)

\* str.lower(), character by character
LowerOf ==
    ("A" :> "a") @@ ("B" :> "b") @@ ("C" :> "c") @@ ("D" :> "d") @@ ("E" :> "e")
    @@ ("F" :> "f") @@ ("G" :> "g") @@ ("H" :> "h") @@ ("I" :> "i") @@ ("J" :> "j")
    @@ ("K" :> "k") @@ ("L" :> "l") @@ ("M" :> "m") @@ ("N" :> "n") @@ ("O" :> "o")
    @@ ("P" :> "p") @@ ("Q" :> "q") @@ ("R" :> "r") @@ ("S" :> "s") @@ ("T" :> "t")
    @@ ("U" :> "u") @@ ("V" :> "v") @@ ("W" :> "w") @@ ("X" :> "x") @@ ("Y" :> "y")
    @@ ("Z" :> "z")
Lower(text) ==
    [i \in DOMAIN text |-> IF text[i] \in DOMAIN LowerOf THEN LowerOf[text[i]] ELSE text[i]]

LowerLetters ==
    {"a", "b", "c", "d", "e", "f", "g", "h", "i", "j", "k", "l", "m",
     "n", "o", "p", "q", "r", "s", "t", "u", "v", "w", "x", "y", "z"}
Digits == {"0", "1", "2", "3", "4", "5", "6", "7", "8", "9"}

\* the characters \w matches
WordChars == LowerLetters \cup { c \in DOMAIN LowerOf : TRUE } \cup Digits \cup {"_"}

RECURSIVE PathChars(_)
\* the characters of the dotted string of a path
PathChars(path) ==
    IF Len(path) = 1 THEN Spell[path[1]]
    ELSE Spell[path[1]] \o <<".">> \o PathChars(Tail(path))

\* word occurs in text at position i
OccursAt(text, word, i) ==
    /\ i + Len(word) - 1 <= Len(text)
    /\ SubSeq(text, i, i + Len(word) - 1) = word

\* word in text
Contains(text, word) == \E i \in 1..Len(text) : OccursAt(text, word, i)

\* re.search of first, or of first.*then when then is not empty, the two
\* being alternations of words
SearchPattern(text, first, then) ==
    \E w \in first : \E i \in 1..Len(text) :
        /\ OccursAt(text, w, i)
        /\ then # {} =>
              \E v \in then : \E j \in (i + Len(w))..Len(text) : OccursAt(text, v, j)

\* the maximal runs of word characters of text, by their first and last
\* position: what a pattern \b(...)\b of plain words can match
WordRuns(text) ==
    { r \in (1..Len(text)) \X (1..Len(text)) :
        /\ r[1] <= r[2]
        /\ \A i \in r[1]..r[2] : text[i] \in WordChars
        /\ r[1] = 1 \/ text[r[1] - 1] \notin WordChars
        /\ r[2] = Len(text) \/ text[r[2] + 1] \notin WordChars }

(***************************************************************************)
(* SemanticAnalyzer (src/src/dynamic_discovery/semantic_analyzer.py)       *)
(***************************************************************************)
\* SemanticAnalyzer.semantic_domains: the domains in the order of the table,
\* each with its keywords
semantic_domains ==
    <<
      [name |-> "service_account", keywords |-> <<
          <<"s", "e", "r", "v", "i", "c", "e", "a", "c", "c", "o", "u", "n", "t">>,
          <<"a", "c", "c", "o", "u", "n", "t">>,
          <<"s", "e", "r", "v", "i", "c", "e">>, <<"a", "u", "t", "h">>,
          <<"i", "d", "e", "n", "t", "i", "t", "y">>,
          <<"a", "u", "t", "h", "e", "n", "t", "i", "c", "a", "t", "i", "o", "n">>,
          <<"a", "u", "t", "h", "o", "r", "i", "z", "a", "t", "i", "o", "n">>,
          <<"s", "a">>, <<"p", "r", "i", "n", "c", "i", "p", "a", "l">>
      >>],
      [name |-> "network", keywords |-> <<
          <<"n", "e", "t", "w", "o", "r", "k">>,
          <<"s", "e", "r", "v", "i", "c", "e">>,
          <<"i", "n", "g", "r", "e", "s", "s">>,
          <<"e", "g", "r", "e", "s", "s">>,
          <<"c", "o", "n", "n", "e", "c", "t", "i", "v", "i", "t", "y">>,
          <<"e", "n", "d", "p", "o", "i", "n", "t">>,
          <<"p", "o", "r", "t">>, <<"i", "p">>, <<"d", "n", "s">>,
          <<"p", "r", "o", "x", "y">>,
          <<"g", "a", "t", "e", "w", "a", "y">>, <<"l", "o", "a", "d">>,
          <<"b", "a", "l", "a", "n", "c", "e", "r">>,
          <<"t", "r", "a", "f", "f", "i", "c">>,
          <<"r", "o", "u", "t", "e">>
      >>],
      [name |-> "storage", keywords |-> <<
          <<"s", "t", "o", "r", "a", "g", "e">>,
          <<"v", "o", "l", "u", "m", "e">>, <<"d", "i", "s", "k">>,
          <<"p", "v", "c">>,
          <<"p", "e", "r", "s", "i", "s", "t", "e", "n", "t">>,
          <<"m", "o", "u", "n", "t">>,
          <<"f", "i", "l", "e", "s", "y", "s", "t", "e", "m">>,
          <<"b", "a", "c", "k", "u", "p">>,
          <<"s", "n", "a", "p", "s", "h", "o", "t">>
      >>],
      [name |-> "security", keywords |-> <<
          <<"s", "e", "c", "u", "r", "i", "t", "y">>, <<"t", "l", "s">>,
          <<"s", "s", "l">>, <<"c", "e", "r", "t">>,
          <<"c", "e", "r", "t", "i", "f", "i", "c", "a", "t", "e">>,
          <<"s", "e", "c", "r", "e", "t">>, <<"k", "e", "y">>,
          <<"t", "o", "k", "e", "n">>,
          <<"e", "n", "c", "r", "y", "p", "t", "i", "o", "n">>,
          <<"c", "i", "p", "h", "e", "r">>,
          <<"c", "r", "y", "p", "t", "o">>
      >>],
      [name |-> "resource", keywords |-> <<
          <<"r", "e", "s", "o", "u", "r", "c", "e">>, <<"c", "p", "u">>,
          <<"m", "e", "m", "o", "r", "y">>, <<"l", "i", "m", "i", "t">>,
          <<"r", "e", "q", "u", "e", "s", "t">>,
          <<"q", "u", "o", "t", "a">>,
          <<"a", "l", "l", "o", "c", "a", "t", "i", "o", "n">>,
          <<"u", "s", "a", "g", "e">>,
          <<"c", "a", "p", "a", "c", "i", "t", "y">>
      >>],
      [name |-> "monitoring", keywords |-> <<
          <<"m", "o", "n", "i", "t", "o", "r">>,
          <<"m", "e", "t", "r", "i", "c">>,
          <<"p", "r", "o", "m", "e", "t", "h", "e", "u", "s">>,
          <<"a", "l", "e", "r", "t">>, <<"h", "e", "a", "l", "t", "h">>,
          <<"s", "t", "a", "t", "u", "s">>, <<"l", "o", "g">>,
          <<"t", "r", "a", "c", "e">>, <<"d", "e", "b", "u", "g">>
      >>],
      [name |-> "database", keywords |-> <<
          <<"d", "a", "t", "a", "b", "a", "s", "e">>, <<"d", "b">>,
          <<"s", "q", "l">>, <<"m", "y", "s", "q", "l">>,
          <<"n", "d", "b">>, <<"c", "l", "u", "s", "t", "e", "r">>,
          <<"r", "e", "p", "l", "i", "c", "a", "t", "i", "o", "n">>,
          <<"b", "a", "c", "k", "u", "p">>,
          <<"r", "e", "s", "t", "o", "r", "e">>,
          <<"s", "c", "h", "e", "m", "a">>
      >>],
      [name |-> "container", keywords |-> <<
          <<"c", "o", "n", "t", "a", "i", "n", "e", "r">>,
          <<"i", "m", "a", "g", "e">>, <<"p", "o", "d">>,
          <<"d", "e", "p", "l", "o", "y", "m", "e", "n", "t">>,
          <<"r", "e", "p", "l", "i", "c", "a">>,
          <<"d", "o", "c", "k", "e", "r">>,
          <<"r", "e", "g", "i", "s", "t", "r", "y">>, <<"t", "a", "g">>,
          <<"p", "u", "l", "l">>
      >>],
      [name |-> "annotation", keywords |-> <<
          <<"a", "n", "n", "o", "t", "a", "t", "i", "o", "n">>,
          <<"l", "a", "b", "e", "l">>,
          <<"m", "e", "t", "a", "d", "a", "t", "a">>, <<"t", "a", "g">>,
          <<"m", "a", "r", "k">>
      >>],
      [name |-> "configuration", keywords |-> <<
          <<"c", "o", "n", "f", "i", "g">>,
          <<"s", "e", "t", "t", "i", "n", "g">>,
          <<"p", "a", "r", "a", "m", "e", "t", "e", "r">>,
          <<"o", "p", "t", "i", "o", "n">>, <<"v", "a", "l", "u", "e">>,
          <<"p", "r", "o", "p", "e", "r", "t", "y">>,
          <<"a", "t", "t", "r", "i", "b", "u", "t", "e">>,
          <<"f", "e", "a", "t", "u", "r", "e">>, <<"f", "l", "a", "g">>
      >>]
    >>

\* SemanticAnalyzer.context_patterns: each regular expression is one or two
\* alternations of words, the second after any run of characters (first.*then)
context_patterns ==
    <<
      [name |-> "service_account", patterns |-> <<
          [first |-> {<<"s", "e", "r", "v", "i", "c", "e", "a", "c", "c", "o", "u", "n", "t">>},
           then |-> {<<"c", "r", "e", "a", "t", "e">>, <<"n", "a", "m", "e">>}],
          [first |-> {<<"c", "r", "e", "a", "t", "e">>, <<"n", "a", "m", "e">>},
           then |-> {<<"s", "e", "r", "v", "i", "c", "e", "a", "c", "c", "o", "u", "n", "t">>}],
          [first |-> {<<"a", "c", "c", "o", "u", "n", "t">>},
           then |-> {<<"u", "p", "g", "r", "a", "d", "e">>, <<"m", "u", "l", "t", "u", "s">>, <<"a", "p", "p">>}],
          [first |-> {<<"a", "u", "t", "h">>},
           then |-> {<<"t", "o", "k", "e", "n">>, <<"p", "r", "i", "n", "c", "i", "p", "a", "l">>}]
      >>],
      [name |-> "network", patterns |-> <<
          [first |-> {<<"s", "e", "r", "v", "i", "c", "e">>},
           then |-> {<<"l", "a", "b", "e", "l", "s">>, <<"a", "n", "n", "o", "t", "a", "t", "i", "o", "n", "s">>, <<"t", "y", "p", "e">>}],
          [first |-> {<<"c", "o", "n", "n", "e", "c", "t", "i", "v", "i", "t", "y">>},
           then |-> {<<"s", "e", "r", "v", "i", "c", "e">>}],
          [first |-> {<<"e", "x", "t", "e", "r", "n", "a", "l">>},
           then |-> {<<"s", "e", "r", "v", "i", "c", "e">>, <<"c", "o", "n", "n", "e", "c", "t", "i", "v", "i", "t", "y">>}],
          [first |-> {<<"l", "o", "a", "d">>},
           then |-> {<<"b", "a", "l", "a", "n", "c", "e", "r">>}],
          [first |-> {<<"i", "n", "g", "r", "e", "s", "s">>, <<"e", "g", "r", "e", "s", "s">>},
           then |-> {}]
      >>],
      [name |-> "database", patterns |-> <<
          [first |-> {<<"m", "y", "s", "q", "l">>, <<"n", "d", "b">>},
           then |-> {<<"h", "o", "s", "t">>, <<"p", "o", "r", "t">>, <<"u", "s", "e", "r">>}],
          [first |-> {<<"r", "e", "p", "l", "i", "c", "a", "t", "i", "o", "n">>},
           then |-> {<<"s", "e", "r", "v", "i", "c", "e">>, <<"h", "o", "s", "t">>}],
          [first |-> {<<"b", "a", "c", "k", "u", "p">>},
           then |-> {<<"m", "a", "n", "a", "g", "e", "r">>, <<"e", "x", "e", "c", "u", "t", "o", "r">>}],
          [first |-> {<<"d", "b">>},
           then |-> {<<"t", "i", "e", "r">>, <<"m", "o", "n", "i", "t", "o", "r">>}]
      >>]
    >>

\* the keywords of a domain
DomainKeywords(domain) ==
    UNION { IF semantic_domains[k].name = domain
            THEN { semantic_domains[k].keywords[i] : i \in DOMAIN semantic_domains[k].keywords }
            ELSE {} : k \in DOMAIN semantic_domains }

\* 2 for every context pattern of the domain that the text matches
ContextScore(text, domain) ==
    LET at == { k \in DOMAIN context_patterns : context_patterns[k].name = domain }
    IN  IF at = {} THEN 0
        ELSE LET pats == context_patterns[CHOOSE k \in at : TRUE].patterns
             IN  2 * Cardinality({ i \in DOMAIN pats :
                                     SearchPattern(text, pats[i].first, pats[i].then) })

\* len(pattern.findall(path_lower)) for the keyword pattern of the domain
KeywordMatches(text, domain) ==
    Cardinality({ r \in WordRuns(text) : SubSeq(text, r[1], r[2]) \in DomainKeywords(domain) })

\* the keys of domain_scores in the order they are inserted: the domains
\* whose context patterns match, then the others whose keywords match
ScoredDomains(text) ==
    LET ctx == [k \in DOMAIN context_patterns |-> context_patterns[k].name]
        all == [k \in DOMAIN semantic_domains |-> semantic_domains[k].name]
    IN  SelectSeq(ctx, LAMBDA d : ContextScore(text, d) > 0)
        \o SelectSeq(all, LAMBDA d : ContextScore(text, d) = 0 /\ KeywordMatches(text, d) > 0)

\* max(domain_scores.items(), key=score): the first of the highest score
FirstHighest(text, domains) ==
    LET score(d) == ContextScore(text, d) + KeywordMatches(text, d)
        i == CHOOSE i \in DOMAIN domains :
                 /\ \A j \in DOMAIN domains : score(domains[j]) <= score(domains[i])
                 /\ \A j \in 1..(i - 1) : score(domains[j]) < score(domains[i])
    IN  domains[i]

\* SemanticAnalyzer.identify_semantic_domain ("none" for None)
identify_semantic_domain(path) ==
    IF ScoredDomains(Lower(PathChars(path))) = <<>> THEN "none"
    ELSE FirstHighest(Lower(PathChars(path)), ScoredDomains(Lower(PathChars(path))))

\* SemanticAnalyzer._extract_semantic_keywords
_extract_semantic_keywords(path, domain) ==
    { keyword \in DomainKeywords(domain) : Contains(Lower(PathChars(path)), keyword) }

\* SemanticAnalyzer._calculate_context_similarity
_calculate_context_similarity(path1, path2) ==
    LET parts1 == { path1[i] : i \in 1..(Len(path1) - 1) }
        parts2 == { path2[i] : i \in 1..(Len(path2) - 1) }
    IN  IF parts1 = {} \/ parts2 = {} THEN Frac(0, 1)
        ELSE Frac(Cardinality(parts1 \cap parts2), Cardinality(parts1 \cup parts2))

\* calculate_semantic_similarity for two paths of the same domain
SameDomainSimilarity(path1, path2, keywords1, keywords2) ==
    FracMin(FracAdd(FracAdd(Frac(6, 10),
                            IF keywords1 # {} /\ keywords2 # {}
                            THEN FracMul(Frac(Cardinality(keywords1 \cap keywords2),
                                              Cardinality(keywords1 \cup keywords2)),
                                         Frac(3, 10))
                            ELSE Frac(0, 1)),
                    FracMul(_calculate_context_similarity(path1, path2), Frac(1, 10))),
            Frac(1, 1))

\* SemanticAnalyzer.calculate_semantic_similarity
calculate_semantic_similarity(path1, path2) ==
    IF \/ identify_semantic_domain(path1) = "none"
       \/ identify_semantic_domain(path2) = "none"
       \/ identify_semantic_domain(path1) # identify_semantic_domain(path2)
    THEN Frac(1, 10)
    ELSE SameDomainSimilarity(path1, path2,
             _extract_semantic_keywords(path1, identify_semantic_domain(path1)),
             _extract_semantic_keywords(path2, identify_semantic_domain(path2)))

(***************************************************************************)
(* The scores of DynamicStructuralDetector                                 *)
(***************************************************************************)
BoolVal(b) == [t |-> "bool", b |-> b]

\* a run of n characters of [a-f0-9], whatever the case, starts at i
HexRun(text, i, n) ==
    /\ i + n - 1 <= Len(text)
    /\ \A j \in i..(i + n - 1) :
          Lower(text)[j] \in {"a", "b", "c", "d", "e", "f"} \cup Digits

\* re.search of the UUID pattern: hex runs of 8, 4, 4, 4 and 12 with dashes
IsUuidLike(text) ==
    \E i \in 1..Len(text) :
        /\ i + 35 <= Len(text)
        /\ HexRun(text, i, 8) /\ text[i + 8] = "-"
        /\ HexRun(text, i + 9, 4) /\ text[i + 13] = "-"
        /\ HexRun(text, i + 14, 4) /\ text[i + 18] = "-"
        /\ HexRun(text, i + 19, 4) /\ text[i + 23] = "-"
        /\ HexRun(text, i + 24, 12)

\* the patterns of a string value.  The raw strings r"\\d" and
\* r"\\.[a-z]{2,}" are the regular expressions \\d and \\.[a-z]{2,}: a
\* backslash followed by d, and a backslash, any character and two
\* lower-case letters.
StringPatterns(text) ==
    [service_account |->
         \/ Contains(Lower(text), Spell["service"] \o <<"a", "c", "c", "o", "u", "n", "t">>)
         \/ Contains(Lower(text), Spell["service-account"]),
     has_dashes |-> Contains(text, <<"-">>),
     has_numbers |-> Contains(text, <<"\\", "d">>),
     length_category |-> IF Len(text) < 10 THEN "short"
                         ELSE IF Len(text) < 30 THEN "medium" ELSE "long",
     has_domain |-> \E i \in 1..(Len(text) - 3) :
                        /\ text[i] = "\\"
                        /\ text[i + 2] \in LowerLetters
                        /\ text[i + 3] \in LowerLetters,
     is_uuid_like |-> IsUuidLike(text)]

\* DynamicStructuralDetector._create_value_signature, of a value as a tree
_create_value_signature(value) ==
    IF value.t = "str"
    THEN [type |-> "string", patterns |-> StringPatterns(Spell[value.s]),
          length |-> Len(Spell[value.s])]
    ELSE IF value.t = "bool" THEN [type |-> "boolean", value |-> value.b]
    ELSE IF value.t = "int"
    THEN [type |-> "number",
          value_range |-> IF (IF value.n < 0 THEN 0 - value.n ELSE value.n) < 100
                          THEN "small" ELSE "large"]
    ELSE IF value.t = "dict"
    THEN [type |-> "dict", keys |-> DOMAIN value.m, key_count |-> Cardinality(DOMAIN value.m)]
    ELSE [type |-> "NoneType"]

Max(a, b) == IF a >= b THEN a ELSE b

\* the weights 0.7 and 0.4 instead of 0.7 and 0.3 (a changed program, for
\* comparison)
StringCompatibilityOverweight(sig1, sig2) ==
    LET pattern_matches ==
            Cardinality({ key \in DOMAIN sig1.patterns :
                            /\ key \in DOMAIN sig2.patterns
                            /\ sig1.patterns[key] = sig2.patterns[key] })
        longest == Max(Max(sig1.length, sig2.length), 1)
    IN  FracAdd(FracMul(Frac(pattern_matches, 6), Frac(7, 10)),
                FracMul(Frac(longest - (Max(sig1.length, sig2.length)
                                        - Min(sig1.length, sig2.length)), longest),
                        Frac(4, 10)))

\* the string branch of _calculate_value_compatibility
StringCompatibility(sig1, sig2) ==
    LET pattern_matches ==
            Cardinality({ key \in DOMAIN sig1.patterns :
                            /\ key \in DOMAIN sig2.patterns
                            /\ sig1.patterns[key] = sig2.patterns[key] })
        pattern_score ==
            Frac(pattern_matches,
                 Max(Cardinality(DOMAIN sig1.patterns), Cardinality(DOMAIN sig2.patterns)))
        longest == Max(Max(sig1.length, sig2.length), 1)
        length_score ==
            Frac(longest - (Max(sig1.length, sig2.length) - Min(sig1.length, sig2.length)),
                 longest)
    IN  FracAdd(FracMul(pattern_score, Frac(7, 10)), FracMul(length_score, Frac(3, 10)))

\* DynamicStructuralDetector._calculate_value_compatibility
_calculate_value_compatibility(sig1, sig2) ==
    IF sig1.type # sig2.type THEN Frac(0, 1)
    ELSE IF sig1.type = "string" THEN StringCompatibility(sig1, sig2)
    ELSE IF sig1.type = "boolean"
    THEN (IF sig1.value = sig2.value THEN Frac(1, 1) ELSE Frac(5, 10))
    ELSE IF sig1.type = "dict"
    THEN (IF sig1.keys \cup sig2.keys # {}
          THEN Frac(Cardinality(sig1.keys \cap sig2.keys), Cardinality(sig1.keys \cup sig2.keys))
          ELSE Frac(0, 1))
    ELSE Frac(6, 10)

RECURSIVE CommonPrefix(_, _, _)
\* the first loop of _calculate_structural_similarity, from index i on
CommonPrefix(old_parts, new_parts, i) ==
    IF i > Min(Len(old_parts), Len(new_parts)) \/ old_parts[i] # new_parts[i] THEN 0
    ELSE 1 + CommonPrefix(old_parts, new_parts, i + 1)

\* DynamicStructuralDetector._calculate_structural_similarity
_calculate_structural_similarity(old_parts, new_parts) ==
    LET max_depth == Max(Len(old_parts), Len(new_parts))
        old_keywords == { old_parts[i] : i \in DOMAIN old_parts }
        new_keywords == { new_parts[i] : i \in DOMAIN new_parts }
        depth_similarity ==
            Frac(max_depth - (max_depth - Min(Len(old_parts), Len(new_parts))), max_depth)
        keyword_similarity ==
            Frac(Cardinality(old_keywords \cap new_keywords),
                 Cardinality(old_keywords \cup new_keywords))
        prefix_weight == Frac(CommonPrefix(old_parts, new_parts, 1), max_depth)
    IN  FracAdd(FracAdd(FracMul(prefix_weight, Frac(4, 10)),
                        FracMul(depth_similarity, Frac(3, 10))),
                FracMul(keyword_similarity, Frac(3, 10)))

RECURSIVE RunLength(_, _, _, _, _, _)
\* the length of the common run of a from i (below ahi) and b from j (below bhi)
RunLength(a, b, i, j, ahi, bhi) ==
    IF i >= ahi \/ j >= bhi \/ a[i] # b[j] THEN 0
    ELSE 1 + RunLength(a, b, i + 1, j + 1, ahi, bhi)

\* difflib.SequenceMatcher.find_longest_match (no junk): the longest common
\* block of a[alo:ahi] and b[blo:bhi], the earliest in a and then in b
find_longest_match(a, b, alo, ahi, blo, bhi) ==
    LET size(p) == RunLength(a, b, p[1], p[2], ahi, bhi)
        best == CHOOSE p \in (alo..(ahi - 1)) \X (blo..(bhi - 1)) :
                    \A q \in (alo..(ahi - 1)) \X (blo..(bhi - 1)) :
                        \/ size(q) < size(p)
                        \/ /\ size(q) = size(p)
                           /\ \/ p[1] < q[1]
                              \/ p[1] = q[1] /\ p[2] <= q[2]
    IN  [i |-> best[1], j |-> best[2], k |-> size(best)]

RECURSIVE MatchedSize(_, _, _, _, _, _)
\* the sum of the sizes of get_matching_blocks within a[alo:ahi], b[blo:bhi]
MatchedSize(a, b, alo, ahi, blo, bhi) ==
    IF alo >= ahi \/ blo >= bhi THEN 0
    ELSE LET m == find_longest_match(a, b, alo, ahi, blo, bhi)
         IN  IF m.k = 0 THEN 0
             ELSE MatchedSize(a, b, alo, m.i, blo, m.j) + m.k
                  + MatchedSize(a, b, m.i + m.k, ahi, m.j + m.k, bhi)

\* difflib.SequenceMatcher(None, a, b).ratio()
ratio(a, b) ==
    IF Len(a) + Len(b) = 0 THEN Frac(1, 1)
    ELSE Frac(2 * MatchedSize(a, b, 1, Len(a) + 1, 1, Len(b) + 1), Len(a) + Len(b))

\* the candidates of a strategy: the new paths whose score is above emit,
\* flagged for review when the score is below review
ScoredCandidates(type, scores, emit, review) ==
    { MigrationCandidate(p, type, scores[p], FracLess(scores[p], review)) :
        p \in { q \in DOMAIN scores : FracLess(emit, scores[q]) } }

\* _find_by_field_similarity, the similarity computed
FieldSimilarityCandidates(old_path, new_paths) ==
    ScoredCandidates("field_name",
        [p \in new_paths |-> ratio(Spell[old_path[Len(old_path)]], Spell[p[Len(p)]])],
        Frac(6, 10), Frac(8, 10))

\* _find_by_value_pattern, the compatibility computed; a new path whose
\* value cannot be fetched is skipped
ValuePatternCandidates(custom_value, h, tnew, new_paths) ==
    ScoredCandidates("value_pattern",
        [p \in { q \in new_paths : get_nested_value(h, tnew, q).exc = "none" } |->
            _calculate_value_compatibility(
                _create_value_signature(custom_value),
                _create_value_signature(Pure(h, get_nested_value(h, tnew, p).c)))],
        Frac(5, 10), Frac(7, 10))

\* _find_by_structural_similarity, the similarity computed
StructuralSimilarityCandidates(old_path, new_paths) ==
    ScoredCandidates("structural",
        [p \in new_paths |-> _calculate_structural_similarity(old_path, p)],
        Frac(4, 10), Frac(7, 10))

\* _find_by_semantic_context, the similarity computed: every new path of
\* the domain of the old path is a candidate
SemanticContextCandidates(old_path, new_paths) ==
    IF identify_semantic_domain(old_path) = "none" THEN {}
    ELSE ScoredCandidates("semantic_context",
             [p \in { q \in new_paths :
                        identify_semantic_domain(q) = identify_semantic_domain(old_path) } |->
                 calculate_semantic_similarity(old_path, p)],
             Frac(0, 1), Frac(8, 10))

\* the candidates.extend calls of _analyze_migration_opportunity: what the
\* four strategies find for an orphaned path and its value in template
\* tnew (all_new_paths is a set: the candidates of a strategy are in no
\* particular order)
RawCandidates(old_path, custom_value, h, tnew) ==
    FieldSimilarityCandidates(old_path, TreePaths(Pure(h, tnew), EmptyStr))
    \cup ValuePatternCandidates(custom_value, h, tnew, TreePaths(Pure(h, tnew), EmptyStr))
    \cup StructuralSimilarityCandidates(old_path, TreePaths(Pure(h, tnew), EmptyStr))
    \cup SemanticContextCandidates(old_path, TreePaths(Pure(h, tnew), EmptyStr))

(***************************************************************************)
(* The orphans and templates whose candidates are computed                 *)
(***************************************************************************)
MaxParts == 2
PathParts == {"service", "port", "ports", "db", "tier", "Port", "x"}
ScoredPaths == UNION { [1..n -> PathParts] : n \in 1..MaxParts }
ScoredKeyOrder == <<<<"service">>, <<"port">>, <<"ports">>, <<"db">>, <<"tier">>,
                    <<"Port">>, <<"x">>>>
ScoredValues ==
    { StrVal("v"), StrVal("service-account"),
      StrVal("0a1b2c3d-0a1b-0a1b-0a1b-0a1b2c3d4e5f"), StrVal("a\\d1"), StrVal("\\.io"),
      StrVal(""), IntVal(80), IntVal(-100), BoolVal(TRUE), BoolVal(FALSE), None,
      Dict((<<"port">> :> IntVal(80)) @@ (<<"x">> :> None)), EmptyDict }
ScoredTemplates ==
    { Dict((<<"service">> :> Dict((<<"port">> :> IntVal(80)) @@ (<<"ports">> :> StrVal("v"))))
           @@ (<<"db">> :> Dict((<<"tier">> :> StrVal("0a1b2c3d-0a1b-0a1b-0a1b-0a1b2c3d4e5f"))))),
      Dict((<<"port">> :> StrVal("service-account")) @@ (<<"x">> :> BoolVal(TRUE))
           @@ (<<"tier">> :> Dict((<<"x">> :> None) @@ (<<"port">> :> IntVal(80))))),
      Dict((<<"Port">> :> StrVal("a\\d1")) @@ (<<"db">> :> StrVal("\\.io"))
           @@ (<<"x">> :> EmptyDict) @@ (<<"ports">> :> StrVal(""))) }

InitScore ==
    /\ pc = "start"
    /\ out = <<>>
    /\ detector = NewDetector
    /\ golden = EmptyDict
    /\ templateOld = EmptyDict
    /\ templateNew \in ScoredTemplates
    /\ migrationMap = <<>>
    /\ signals = <<>>
    /\ args \in [old_path : ScoredPaths, custom_value : ScoredValues]

\* the four strategies are run for the orphan on the template
FindCandidates ==
    /\ pc = "start"
    /\ \E f \in {Alloc(<<>>, templateNew, ScoredKeyOrder)} :
           out' = [candidates |-> RawCandidates(args.old_path, args.custom_value, f.h, f.c)]
    /\ pc' = "scored"
    /\ UNCHANGED <<golden, templateOld, templateNew, migrationMap, args, signals, detector>>

NextScore == FindCandidates

SpecScore == InitScore /\ [][NextScore]_vars

\* C12: every candidate of the four strategies has a score between 0 and 1,
\* whatever the orphaned path, its value and the template, and the
\* auto-apply threshold is above the suggest threshold.
C12_ScoresInUnitInterval ==
    /\ pc = "scored" =>
          \A c \in out.candidates :
              /\ 0 <= c.similarity_score.n
              /\ c.similarity_score.n <= c.similarity_score.d
    /\ auto_apply_threshold > suggest_threshold

\* all four strategies gave a candidate, one of score 1 and one below 1
C12_Witness ==
    /\ pc = "scored"
    /\ \A k \in DOMAIN Strategies :
          \E c \in out.candidates : c.similarity_type = Strategies[k]
    /\ \E c \in out.candidates : c.similarity_score = Frac(1, 1)
    /\ \E c \in out.candidates : FracLess(c.similarity_score, Frac(1, 1))

(***************************************************************************)
(* PathTransformationDetector (src/src/cvpilot/core/transformer.py).       *)
(* Configurations are plain trees; the keys of a mapping come in the order *)
(* TransformKeyOrder.  A path is the sequence of its dot-free segments,    *)
(* a part key[idx] being one of them (_parse_path_segments splits it).     *)
(***************************************************************************)
TransformKeyOrder == <<<<"a">>, <<"b">>, <<"a", "x">>, <<"x">>, <<"y">>, <<"z">>, <<"l">>>>

\* the characters in use, in the order of their code points
CodePointOrder ==
    <<"*", "-", ".", "0", "1", "2", "3", "4", "5", "6", "7", "8", "9",
      ":", "A", "B", "C", "D", "E", "F", "G", "H", "I", "J", "K", "L",
      "M", "N", "O", "P", "Q", "R", "S", "T", "U", "V", "W", "X", "Y",
      "Z", "[", "\\", "]", "_", "a", "b", "c", "d", "e", "f", "g", "h", "i", "j",
      "k", "l", "m", "n", "o", "p", "q", "r", "s", "t", "u", "v", "w",
      "x", "y", "z">>
CodePoint(c) == CHOOSE k \in DOMAIN CodePointOrder : CodePointOrder[k] = c

RECURSIVE TextLess(_, _, _)
\* s < t for two strings, compared from character i on
TextLess(s, t, i) ==
    IF i > Len(t) THEN FALSE
    ELSE IF i > Len(s) THEN TRUE
    ELSE IF s[i] # t[i] THEN CodePoint(s[i]) < CodePoint(t[i])
    ELSE TextLess(s, t, i + 1)

RECURSIVE SortedBy(_, _)
\* sorted(items, key=...) where key[i] is the string key of items[i]: the
\* least first, equal keys in their original order
SortedBy(items, key) ==
    IF items = <<>> THEN <<>>
    ELSE LET i == CHOOSE i \in DOMAIN items :
                      /\ \A j \in DOMAIN items : ~TextLess(key[j], key[i], 1)
                      /\ \A j \in 1..(i - 1) : TextLess(key[i], key[j], 1)
             Rest(q) == SubSeq(q, 1, i - 1) \o SubSeq(q, i + 1, Len(q))
         IN  <<items[i]>> \o SortedBy(Rest(items), Rest(key))

\* sorted(paths)
SortedPaths(paths) == SortedBy(paths, [i \in DOMAIN paths |-> PathChars(paths[i])])

DigitChars == <<"0", "1", "2", "3", "4", "5", "6", "7", "8", "9">>

RECURSIVE Decimal(_)
\* str(n) for an int
Decimal(n) ==
    IF n < 0 THEN <<"-">> \o Decimal(0 - n)
    ELSE IF n < 10 THEN <<DigitChars[n + 1]>>
    ELSE Decimal(n \div 10) \o <<DigitChars[(n % 10) + 1]>>

\* str(value) for a leaf
StrOf(value) ==
    IF value.t = "str" THEN Spell[value.s]
    ELSE IF value.t = "int" THEN Decimal(value.n)
    ELSE IF value.t = "bool"
    THEN (IF value.b THEN <<"T", "r", "u", "e">> ELSE <<"F", "a", "l", "s", "e">>)
    ELSE <<"N", "o", "n", "e">>

\* PathTransformationDetector._make_value_key: f"{context}:{str(value)}"
_make_value_key(value, context) == PathChars(context) \o <<":">> \o StrOf(value)

\* self.value_paths_map[value_key].append(new_path)
AppendPath(value_paths_map, value_key, new_path) ==
    IF \E k \in DOMAIN value_paths_map : value_paths_map[k].key = value_key
    THEN [k \in DOMAIN value_paths_map |->
             IF value_paths_map[k].key = value_key
             THEN [key |-> value_key, paths |-> Append(value_paths_map[k].paths, new_path)]
             ELSE value_paths_map[k]]
    ELSE Append(value_paths_map, [key |-> value_key, paths |-> <<new_path>>])

\* _build_path_value_map for a leaf: the value is stored, and tracked
\* unless it is None or the empty string
StoreLeaf(d, new_path, value, key) ==
    [d EXCEPT !.path_value_map = (new_path :> value) @@ @,
              !.value_paths_map =
                  IF value.t = "none" \/ value = StrVal("") THEN @
                  ELSE AppendPath(@, _make_value_key(value, key), new_path)]

RECURSIVE BuildMapItems(_, _, _, _, _)
RECURSIVE BuildListItems(_, _, _, _, _)
\* the loop of _build_path_value_map over the items of the list data, from
\* its i-th item on
BuildListItems(d, data, i, current_path, parent_key) ==
    IF i > Len(data.items) THEN d
    ELSE IF data.items[i].t = "dict"
    THEN BuildListItems(
             BuildMapItems(d, data.items[i],
                           SortKeys(DOMAIN data.items[i].m, TransformKeyOrder), 1,
                           IndexedPath(current_path, i - 1)),
             data, i + 1, current_path, parent_key)
    ELSE IF data.items[i].t = "list"
    THEN BuildListItems(
             BuildListItems(d, data.items[i], 1, IndexedPath(current_path, i - 1),
                            parent_key),
             data, i + 1, current_path, parent_key)
    ELSE BuildListItems(StoreLeaf(d, IndexedPath(current_path, i - 1), data.items[i],
                                  parent_key),
                        data, i + 1, current_path, parent_key)

\* the loop of _build_path_value_map over the items of the dict data, from
\* its i-th key on
BuildMapItems(d, data, keys, i, current_path) ==
    IF i > Len(keys) THEN d
    ELSE IF data.m[keys[i]].t = "dict"
    THEN BuildMapItems(
             BuildMapItems(d, data.m[keys[i]],
                           SortKeys(DOMAIN data.m[keys[i]].m, TransformKeyOrder), 1,
                           JoinPath(current_path, keys[i])),
             data, keys, i + 1, current_path)
    ELSE IF data.m[keys[i]].t = "list"
    THEN BuildMapItems(
             BuildListItems(d, data.m[keys[i]], 1, JoinPath(current_path, keys[i]), keys[i]),
             data, keys, i + 1, current_path)
    ELSE BuildMapItems(StoreLeaf(d, JoinPath(current_path, keys[i]), data.m[keys[i]], keys[i]),
                       data, keys, i + 1, current_path)

\* PathTransformationDetector._build_path_value_map
_build_path_value_map(d, data, current_path) ==
    IF data.t = "dict"
    THEN BuildMapItems(d, data, SortKeys(DOMAIN data.m, TransformKeyOrder), 1, current_path)
    ELSE d

\* the groups filtered for nothing (a changed program, for comparison)
AllValueGroups(d) == d.value_paths_map

\* PathTransformationDetector._find_duplicate_value_groups
_find_duplicate_value_groups(d) ==
    SelectSeq(d.value_paths_map, LAMBDA g : Len(g.paths) >= 2)

\* the keys of the sequences of the configurations and the indices of
\* their items
ListKeys == {"l"}
MaxIndex == 4

\* the part "key[idx]" of a path
IndexedPart(key, idx) == key \o "[" \o ToString(idx) \o "]"

\* re.match(r'([^\[]+)\[(\d+)\]', part): the key and the index of the
\* part, when it has that form
IndexMatches(part) ==
    { ki \in ListKeys \X (0..MaxIndex) : part = IndexedPart(ki[1], ki[2]) }

\* a segment of a path: a key, or an index (idx is -1 for a key)
KeySegment(key) == [key |-> key, idx |-> 0 - 1]
IndexSegment(idx) == [key |-> "", idx |-> idx]
IsIndex(segment) == segment.idx >= 0

RECURSIVE _parse_path_segments(_)
\* PathTransformationDetector._parse_path_segments: the path is split on
\* dots, and a part key[idx] gives the key and then the index
_parse_path_segments(path) ==
    IF path = <<>> THEN <<>>
    ELSE (IF IndexMatches(Head(path)) # {}
          THEN LET ki == CHOOSE ki \in IndexMatches(Head(path)) : TRUE
               IN  <<KeySegment(ki[1]), IndexSegment(ki[2])>>
          ELSE <<KeySegment(Head(path))>>)
         \o _parse_path_segments(Tail(path))

\* current holds segment: the key in a dict, the index in a list
HasSegment(current, segment) ==
    IF IsIndex(segment)
    THEN current.t = "list" /\ segment.idx < Len(current.items)
    ELSE current.t = "dict" /\ <<segment.key>> \in DOMAIN current.m

\* current[segment]
AtSegment(current, segment) ==
    IF IsIndex(segment) THEN current.items[segment.idx + 1] ELSE current.m[<<segment.key>>]

RECURSIVE ExistsFrom(_, _, _)
\* the loop of _path_exists_in_config from segment i on
ExistsFrom(current, segments, i) ==
    IF i > Len(segments) THEN TRUE
    ELSE IF HasSegment(current, segments[i])
    THEN ExistsFrom(AtSegment(current, segments[i]), segments, i + 1)
    ELSE FALSE

\* PathTransformationDetector._path_exists_in_config
_path_exists_in_config(path, config) == ExistsFrom(config, _parse_path_segments(path), 1)

RECURSIVE ValueFrom(_, _, _)
\* the loop of _get_value_at_path from segment i on; None when
\* current[segment] raises
ValueFrom(current, segments, i) ==
    IF i > Len(segments) THEN current
    ELSE IF HasSegment(current, segments[i])
    THEN ValueFrom(AtSegment(current, segments[i]), segments, i + 1)
    ELSE None

\* PathTransformationDetector._get_value_at_path
_get_value_at_path(config, path) == ValueFrom(config, _parse_path_segments(path), 1)

\* a TransformationRecord (the reason, a message, is left out)
TransformationRecord(old_path, new_path, value, recommendation, confidence) ==
    [old_path |-> old_path, new_path |-> new_path, value |-> value,
     recommendation |-> recommendation, confidence |-> confidence]

\* the keep_both records between the consecutive pairs of the sorted paths
KeepBoth(sorted_paths, value, confidence) ==
    [i \in 1..(Len(sorted_paths) - 1) |->
        TransformationRecord(sorted_paths[i], sorted_paths[i + 1], value,
                             "keep_both", confidence)]

\* the analysis moving only the first of the absent paths (a changed
\* program, for comparison)
AnalyzeToldFirstOnly(paths, value, paths_in_reference, paths_not_in_reference) ==
    IF Len(paths_in_reference) = 1 /\ Len(paths_not_in_reference) >= 1
    THEN << TransformationRecord(paths_not_in_reference[1], paths_in_reference[1],
                                 value, "move", "high") >>
    ELSE IF Len(paths_in_reference) >= 2
    THEN KeepBoth(SortedPaths(paths), value, "medium")
    ELSE IF Len(paths_not_in_reference) >= 2
    THEN KeepBoth(SortedPaths(paths), value, "low")
    ELSE <<>>

\* _analyze_duplicate_paths once the paths are told apart
AnalyzeTold(paths, value, paths_in_reference, paths_not_in_reference) ==
    IF Len(paths_in_reference) = 1 /\ Len(paths_not_in_reference) >= 1
    THEN [i \in 1..Len(paths_not_in_reference) |->
             TransformationRecord(paths_not_in_reference[i], paths_in_reference[1],
                                  value, "move", "high")]
    ELSE IF Len(paths_in_reference) >= 2
    THEN KeepBoth(SortedPaths(paths), value, "medium")
    ELSE IF Len(paths_not_in_reference) >= 2
    THEN KeepBoth(SortedPaths(paths), value, "low")
    ELSE <<>>

\* PathTransformationDetector._analyze_duplicate_paths
_analyze_duplicate_paths(paths, path_value_map, reference_config) ==
    AnalyzeTold(paths, path_value_map[paths[1]],
        SelectSeq(paths, LAMBDA path : _path_exists_in_config(path, reference_config)),
        SelectSeq(paths, LAMBDA path : ~_path_exists_in_config(path, reference_config)))

\* None, for a path
NoPath == <<>>

\* PathTransformationDetector._get_parent_path: for a path with an index,
\* what precedes the last key before the first bracket
_get_parent_path(path) ==
    IF \E k \in DOMAIN path : IndexMatches(path[k]) # {}
    THEN LET k == CHOOSE k \in DOMAIN path :
                      /\ IndexMatches(path[k]) # {}
                      /\ \A j \in 1..(k - 1) : IndexMatches(path[j]) = {}
         IN  IF k > 1 THEN SubSeq(path, 1, k - 1) ELSE NoPath
    ELSE IF Len(path) > 1 THEN SubSeq(path, 1, Len(path) - 1) ELSE NoPath

RECURSIVE _count_leaf_fields(_)
RECURSIVE CountItems(_, _)
\* the loop of _count_leaf_fields over the items of a list, from the i-th on
CountItems(value, i) ==
    IF i > Len(value.items) THEN 0
    ELSE (IF value.items[i].t = "dict" THEN _count_leaf_fields(value.items[i]) ELSE 1)
         + CountItems(value, i + 1)

\* PathTransformationDetector._count_leaf_fields
_count_leaf_fields(obj) ==
    IF obj.t # "dict" THEN 0
    ELSE IF DOMAIN obj.m = {} THEN 0
    ELSE LET key == CHOOSE key \in DOMAIN obj.m : TRUE
             rest == Dict([k \in DOMAIN obj.m \ {key} |-> obj.m[k]])
         IN  (IF obj.m[key].t = "dict" THEN _count_leaf_fields(obj.m[key])
              ELSE IF obj.m[key].t = "list" THEN CountItems(obj.m[key], 1)
              ELSE 1)
             + _count_leaf_fields(rest)

\* PathTransformationDetector._get_representative_new_path
_get_representative_new_path(transformations) ==
    IF _get_parent_path(transformations[1].new_path) \notin {NoPath, EmptyStr}
    THEN _get_parent_path(transformations[1].new_path) \o <<"*">>
    ELSE transformations[1].new_path

\* child_path.startswith(parent_path + '[')
StartsWithBracket(child_path, parent_path) ==
    /\ Len(child_path) >= Len(parent_path)
    /\ SubSeq(child_path, 1, Len(parent_path) - 1)
           = SubSeq(parent_path, 1, Len(parent_path) - 1)
    /\ \E ki \in IndexMatches(child_path[Len(parent_path)]) :
           ki[1] = parent_path[Len(parent_path)]

\* PathTransformationDetector._is_child_of
_is_child_of(child_path, parent_path) ==
    /\ child_path # parent_path
    /\ \/ StartsWithDot(child_path, parent_path)
       \/ StartsWithBracket(child_path, parent_path)

\* PathTransformationDetector._is_child_of_any
_is_child_of_any(path, parent_paths) ==
    \E parent_path \in parent_paths : _is_child_of(path, parent_path)

\* the value of a parent record, "[Object with N field(s)]"
ObjectSummary(total_fields) == [t |-> "summary", fields |-> total_fields]

RECURSIVE ParentGroups(_, _, _)
\* the keys of parent_groups in insertion order: the parents of the old
\* paths of the move records, each once
ParentGroups(field_transformations, i, parents) ==
    IF i > Len(field_transformations) THEN parents
    ELSE LET trans == field_transformations[i]
             parent_path == _get_parent_path(trans.old_path)
         IN  IF /\ trans.recommendation = "move"
                /\ parent_path \notin {NoPath, EmptyStr}
                /\ \A k \in DOMAIN parents : parents[k] # parent_path
             THEN ParentGroups(field_transformations, i + 1, Append(parents, parent_path))
             ELSE ParentGroups(field_transformations, i + 1, parents)

\* the parent record made whatever share of the fields is moved (a changed
\* program, for comparison)
ParentRecordAnyShare(parent_path, child_transformations, parent_obj, reference_config) ==
    IF /\ parent_obj.t = "dict"
       /\ _count_leaf_fields(parent_obj) > 0
       /\ ~_path_exists_in_config(parent_path, reference_config)
    THEN << TransformationRecord(parent_path,
                _get_representative_new_path(child_transformations),
                ObjectSummary(_count_leaf_fields(parent_obj)), "move", "high") >>
    ELSE <<>>

\* the body of the loop over parent_groups: the record for one parent, if any
ParentRecord(parent_path, child_transformations, parent_obj, reference_config) ==
    IF /\ parent_obj.t = "dict"
       /\ _count_leaf_fields(parent_obj) > 0
       /\ 2 * Len(child_transformations) >= _count_leaf_fields(parent_obj)
       /\ ~_path_exists_in_config(parent_path, reference_config)
    THEN << TransformationRecord(parent_path,
                _get_representative_new_path(child_transformations),
                ObjectSummary(_count_leaf_fields(parent_obj)), "move", "high") >>
    ELSE <<>>

RECURSIVE ParentLoop(_, _, _, _, _)
\* the loop of _detect_parent_object_transformations over parent_groups
ParentLoop(parents, i, field_transformations, merged_config, reference_config) ==
    IF i > Len(parents) THEN <<>>
    ELSE ParentRecord(parents[i],
             SelectSeq(field_transformations,
                 LAMBDA trans : /\ trans.recommendation = "move"
                                /\ _get_parent_path(trans.old_path) = parents[i]),
             _get_value_at_path(merged_config, parents[i]),
             reference_config)
         \o ParentLoop(parents, i + 1, field_transformations, merged_config, reference_config)

\* PathTransformationDetector._detect_parent_object_transformations
_detect_parent_object_transformations(field_transformations, merged_config, reference_config) ==
    ParentLoop(ParentGroups(field_transformations, 1, <<>>), 1,
               field_transformations, merged_config, reference_config)

RECURSIVE GroupRecords(_, _, _, _)
\* the loop of detect_duplicate_values over the duplicate groups
GroupRecords(groups, i, path_value_map, reference_config) ==
    IF i > Len(groups) THEN <<>>
    ELSE (IF Len(groups[i].paths) >= 2
          THEN _analyze_duplicate_paths(groups[i].paths, path_value_map, reference_config)
          ELSE <<>>)
         \o GroupRecords(groups, i + 1, path_value_map, reference_config)

\* the records joined with no field record filtered out (a changed program,
\* for comparison)
DetectedUnfiltered(d, transformations, parent_transformations) ==
    [detector |-> d,
     groups |-> _find_duplicate_value_groups(d),
     transformations |-> transformations \o parent_transformations]

\* detect_duplicate_values once the field and the parent records are made
Detected(d, transformations, parent_transformations) ==
    [detector |-> d,
     groups |-> _find_duplicate_value_groups(d),
     transformations |->
         SelectSeq(transformations,
             LAMBDA t : ~_is_child_of_any(t.old_path,
                            { parent_transformations[k].old_path :
                                  k \in DOMAIN parent_transformations }))
         \o parent_transformations]

\* detect_duplicate_values once the field records are made
DetectedFields(d, transformations, merged_config, reference_config) ==
    Detected(d, transformations,
        _detect_parent_object_transformations(transformations, merged_config,
                                              reference_config))

\* detect_duplicate_values once the maps are built
DetectBuilt(d, merged_config, reference_config) ==
    DetectedFields(d,
        GroupRecords(_find_duplicate_value_groups(d), 1, d.path_value_map, reference_config),
        merged_config, reference_config)

\* PathTransformationDetector.detect_duplicate_values on the detector d
detect_duplicate_values(d, merged_config, reference_config) ==
    DetectBuilt(_build_path_value_map(d, merged_config, EmptyStr),
                merged_config, reference_config)

\* current with value at segment
WithSegment(current, segment, value) ==
    IF IsIndex(segment)
    THEN ListVal([current.items EXCEPT ![segment.idx + 1] = value])
    ELSE Dict((<<segment.key>> :> value) @@ current.m)

RECURSIVE SetFrom(_, _, _, _)
\* _set_value_at_path from segment i on: the changed node, or exc when
\* current[segment] raises; the last segment is set in a list that has the
\* index, or in a dict
SetFrom(current, segments, i, value) ==
    IF i = Len(segments)
    THEN [exc |-> FALSE,
          c |-> IF IsIndex(segments[i])
                THEN (IF HasSegment(current, segments[i])
                      THEN WithSegment(current, segments[i], value) ELSE current)
                ELSE IF current.t = "dict"
                THEN WithSegment(current, segments[i], value) ELSE current]
    ELSE IF HasSegment(current, segments[i])
    THEN LET r == SetFrom(AtSegment(current, segments[i]), segments, i + 1, value)
         IN  [exc |-> r.exc, c |-> WithSegment(current, segments[i], r.c)]
    ELSE [exc |-> TRUE, c |-> current]

\* the result of _set_value_at_path for the walk r
SetResult(config, r) == IF r.exc THEN config ELSE r.c

\* PathTransformationDetector._set_value_at_path
_set_value_at_path(config, path, value) ==
    SetResult(config, SetFrom(config, _parse_path_segments(path), 1, value))

\* del current[key], when it is there
Without(current, key) ==
    IF current.t = "dict" THEN Dict([k \in DOMAIN current.m \ {key} |-> current.m[k]])
    ELSE current

\* del current[segment], when the list has the index or the dict the key
WithoutSegment(current, segment) ==
    IF IsIndex(segment)
    THEN (IF HasSegment(current, segment)
          THEN ListVal(SubSeq(current.items, 1, segment.idx)
                       \o SubSeq(current.items, segment.idx + 2, Len(current.items)))
          ELSE current)
    ELSE Without(current, <<segment.key>>)

\* what _cleanup_empty_parents removes: at a key an empty dict or list, at
\* an index whatever is false
IsEmptied(segment, target) ==
    \/ target \in {EmptyDict, ListVal(<<>>)}
    \/ IsIndex(segment) /\ target \in {None, StrVal(""), IntVal(0), BoolVal(FALSE)}

RECURSIVE RemoveFromNoCleanup(_, _, _)
\* _remove_path from segment i on without _cleanup_empty_parents (a changed
\* program, for comparison)
RemoveFromNoCleanup(current, segments, i) ==
    IF i = Len(segments)
    THEN [exc |-> FALSE, c |-> WithoutSegment(current, segments[i])]
    ELSE IF HasSegment(current, segments[i])
    THEN LET r == RemoveFromNoCleanup(AtSegment(current, segments[i]), segments, i + 1)
         IN  [exc |-> r.exc, c |-> WithSegment(current, segments[i], r.c)]
    ELSE [exc |-> TRUE, c |-> current]

RECURSIVE RemoveFrom(_, _, _)
\* _remove_path from segment i on, with _cleanup_empty_parents: the last
\* segment is deleted, and every parent on the way that is left empty; exc
\* when current[segment] raises, and then nothing is changed
RemoveFrom(current, segments, i) ==
    IF i = Len(segments)
    THEN [exc |-> FALSE, c |-> WithoutSegment(current, segments[i])]
    ELSE IF HasSegment(current, segments[i])
    THEN LET r == RemoveFrom(AtSegment(current, segments[i]), segments, i + 1)
         IN  [exc |-> r.exc,
              c |-> IF IsEmptied(segments[i], r.c)
                    THEN WithoutSegment(current, segments[i])
                    ELSE WithSegment(current, segments[i], r.c)]
    ELSE [exc |-> TRUE, c |-> current]

\* the result of _remove_path for the walk r
RemoveResult(config, r) == IF r.exc THEN config ELSE r.c

\* PathTransformationDetector._remove_path
_remove_path(config, path) ==
    RemoveResult(config, RemoveFrom(config, _parse_path_segments(path), 1))

\* PathTransformationDetector._move_value
_move_value(config, old_path, new_path, value) ==
    _remove_path(
        IF value.t # "summary" /\ _get_value_at_path(config, old_path).t # "none"
        THEN _set_value_at_path(config, new_path, _get_value_at_path(config, old_path))
        ELSE config,
        old_path)

RECURSIVE ApplyLoop(_, _, _)
\* the loop of apply_transformations over the sorted transformations
ApplyLoop(result, sorted_transformations, i) ==
    IF i > Len(sorted_transformations) THEN result
    ELSE LET t == sorted_transformations[i]
         IN  IF t.recommendation = "move" /\ _path_exists_in_config(t.old_path, result)
             THEN ApplyLoop(_move_value(result, t.old_path, t.new_path, t.value),
                            sorted_transformations, i + 1)
             ELSE IF t.recommendation = "remove_old"
                     /\ _path_exists_in_config(t.old_path, result)
             THEN ApplyLoop(_remove_path(result, t.old_path), sorted_transformations, i + 1)
             ELSE ApplyLoop(result, sorted_transformations, i + 1)

\* the sort key (t.old_path.count('.'), t.old_path) as a string: the count
\* as one character, then the path
DepthFirstKey(t) == <<DigitChars[Len(t.old_path)]>> \o PathChars(t.old_path)

\* the transformations in the order given (a changed program, for
\* comparison)
UnsortedTransformations(transformations) == transformations

\* sorted(transformations, key=lambda t: (t.old_path.count('.'), t.old_path))
SortedTransformations(transformations) ==
    SortedBy(transformations,
             [i \in DOMAIN transformations |-> DepthFirstKey(transformations[i])])

\* PathTransformationDetector.apply_transformations
apply_transformations(config, transformations) ==
    ApplyLoop(config, SortedTransformations(transformations), 1)

(***************************************************************************)
(* The merged configurations and references the detector is run on: two    *)
(* objects a and b of up to three fields and a top-level field x, and a    *)
(* few configurations with dotted keys, deeper nesting, other leaves and   *)
(* sequences (under the key l only, which never holds anything else).      *)
(***************************************************************************)
MaxFields == 3
FieldKeys == {<<"x">>, <<"y">>, <<"z">>}
FieldValues == {StrVal("v"), StrVal("w")}
Objects ==
    { Dict(f) : f \in UNION { [D -> FieldValues] :
                                D \in { X \in SUBSET FieldKeys : Cardinality(X) <= MaxFields } } }
OptionalItem(key, values) == {<<>>} \cup { (key :> v) : v \in values }
PlainConfigs ==
    { Dict(a @@ b @@ x) : a \in OptionalItem(<<"a">>, Objects),
                          b \in OptionalItem(<<"b">>, Objects),
                          x \in OptionalItem(<<"x">>, FieldValues) }
SpecialConfigs ==
    { Dict((<<"a", "x">> :> Dict(<<"x">> :> StrVal("v")))
           @@ (<<"a">> :> Dict(<<"x">> :> Dict(<<"x">> :> StrVal("v"))))),
      Dict((<<"a", "x">> :> StrVal("v")) @@ (<<"b">> :> Dict(<<"a", "x">> :> StrVal("v")))),
      Dict((<<"a">> :> Dict(<<"x">> :> IntVal(1))) @@ (<<"b">> :> Dict(<<"x">> :> StrVal("1")))),
      Dict((<<"a">> :> Dict(<<"x">> :> None)) @@ (<<"b">> :> Dict(<<"x">> :> None))),
      Dict((<<"a">> :> Dict(<<"x">> :> StrVal(""))) @@ (<<"b">> :> Dict(<<"x">> :> StrVal("")))),
      Dict((<<"a">> :> Dict((<<"b">> :> Dict(<<"x">> :> StrVal("v"))) @@ (<<"y">> :> StrVal("w"))))
           @@ (<<"b">> :> Dict(<<"x">> :> StrVal("v")))),
      Dict((<<"a">> :> Dict((<<"b">> :> Dict(<<"x">> :> StrVal("v"))) @@ (<<"x">> :> StrVal("v"))))
           @@ (<<"b">> :> Dict(<<"x">> :> StrVal("v")))),
      Dict((<<"a">> :> Dict((<<"x">> :> StrVal("v")) @@ (<<"y">> :> StrVal("w"))
                            @@ (<<"z">> :> StrVal("v"))
                            @@ (<<"b">> :> Dict((<<"x">> :> StrVal("v")) @@ (<<"y">> :> StrVal("v"))
                                                @@ (<<"z">> :> StrVal("w"))))))
           @@ (<<"b">> :> Dict((<<"x">> :> StrVal("v")) @@ (<<"y">> :> StrVal("w"))
                               @@ (<<"z">> :> StrVal("v"))))),
      Dict((<<"a">> :> Dict((<<"b">> :> Dict(<<"a">> :> Dict(<<"x">> :> StrVal("v"))))
                            @@ (<<"y">> :> StrVal("w"))))
           @@ (<<"b">> :> Dict(<<"x">> :> StrVal("v")))) }
ListConfigs ==
    { Dict(<<"l">> :> ListVal(<<StrVal("v"), StrVal("v")>>)),
      Dict(<<"l">> :> ListVal(<<StrVal("v"), StrVal("w"), StrVal("v"), StrVal("w")>>)),
      Dict(<<"l">> :> ListVal(<<StrVal("v"), StrVal("w"), StrVal("v"), StrVal("w"),
                                StrVal("z")>>)),
      Dict(<<"l">> :> ListVal(<<Dict(<<"x">> :> StrVal("v")), Dict(<<"x">> :> StrVal("w")),
                                Dict(<<"x">> :> StrVal("v")), Dict(<<"x">> :> StrVal("w"))>>)),
      Dict((<<"a">> :> Dict(<<"l">> :> ListVal(<<StrVal("v")>>)))
           @@ (<<"l">> :> ListVal(<<StrVal("v")>>))),
      Dict((<<"a">> :> Dict(<<"l">> :> ListVal(<<StrVal("v"), StrVal("w")>>)))
           @@ (<<"l">> :> ListVal(<<StrVal("v"), StrVal("w")>>))) }
ReferenceConfigs ==
    { EmptyDict,
      Dict(<<"l">> :> ListVal(<<StrVal("")>>)),
      Dict(<<"l">> :> ListVal(<<StrVal(""), StrVal("")>>)),
      Dict((<<"a">> :> EmptyDict) @@ (<<"l">> :> ListVal(<<StrVal("")>>))),
      Dict(<<"l">> :> ListVal(<<Dict(<<"x">> :> StrVal("")), Dict(<<"x">> :> StrVal(""))>>)),
      Dict(<<"b">> :> Dict(<<"x">> :> StrVal(""))),
      Dict(<<"b">> :> Dict((<<"x">> :> StrVal("")) @@ (<<"y">> :> StrVal("")))),
      Dict(<<"b">> :> Dict((<<"x">> :> StrVal("")) @@ (<<"y">> :> StrVal(""))
                           @@ (<<"z">> :> StrVal("")))),
      Dict((<<"a">> :> Dict(<<"x">> :> StrVal(""))) @@ (<<"b">> :> Dict(<<"x">> :> StrVal("")))),
      Dict((<<"a">> :> EmptyDict) @@ (<<"b">> :> Dict(<<"x">> :> StrVal("")))),
      Dict((<<"b">> :> Dict(<<"x">> :> StrVal(""))) @@ (<<"x">> :> StrVal(""))),
      Dict((<<"a", "x">> :> StrVal("")) @@ (<<"b">> :> Dict(<<"a", "x">> :> StrVal("")))) }

InitTransform ==
    /\ pc = "start"
    /\ out = <<>>
    /\ detector = NewDetector
    /\ golden = EmptyDict
    /\ templateOld = EmptyDict
    /\ templateNew \in ReferenceConfigs
    /\ migrationMap = <<>>
    /\ signals = <<>>
    /\ args \in [merged_config : PlainConfigs \cup SpecialConfigs \cup ListConfigs]

\* stage 3 of the workflow: a detector is made and detect_duplicate_values
\* is run on the merged configuration and the reference; analysed keeps,
\* group by group, the records _analyze_duplicate_paths makes for it
Detect ==
    /\ pc = "start"
    /\ \E r \in {detect_duplicate_values(NewDetector, args.merged_config, templateNew)} :
           /\ detector' = r.detector
           /\ out' = [groups |-> r.groups,
                      analysed |-> [k \in DOMAIN r.groups |->
                                       _analyze_duplicate_paths(r.groups[k].paths,
                                           r.detector.path_value_map, templateNew)],
                      transformations |-> r.transformations,
                      selected |-> <<>>, applied |-> args.merged_config]
    /\ pc' = "detected"
    /\ UNCHANGED <<golden, templateOld, templateNew, migrationMap, args, signals>>

\* the user selects some of the move records and they are applied
Apply ==
    /\ pc = "detected"
    /\ \E chosen \in SUBSET { i \in DOMAIN out.transformations :
                                 out.transformations[i].recommendation = "move" } :
           /\ chosen # {}
           /\ \E selected \in {SelectSeq(out.transformations,
                                    LAMBDA t : \E i \in chosen : out.transformations[i] = t)} :
                  out' = [out EXCEPT !.selected = selected,
                                     !.applied = apply_transformations(args.merged_config,
                                                                       selected)]
    /\ pc' = "applied"
    /\ UNCHANGED <<golden, templateOld, templateNew, migrationMap, args, signals, detector>>

\* the trees of a later run, besides the one already processed
SecondConfigs == {EmptyDict, Dict(<<"a">> :> Dict(<<"x">> :> StrVal("v")))}

\* detect_duplicate_values is called once more on the detector that has
\* processed the merged configuration, for the same tree or another one
DetectAgain ==
    /\ pc = "detected"
    /\ \E merged_config \in {args.merged_config} \cup SecondConfigs :
       \E r \in {detect_duplicate_values(detector, merged_config, templateNew)} :
           /\ detector' = r.detector
           /\ out' = [merged_config |-> merged_config,
                      transformations |-> r.transformations]
    /\ pc' = "detected again"
    /\ UNCHANGED <<golden, templateOld, templateNew, migrationMap, args, signals>>

NextTransform == Detect \/ Apply \/ DetectAgain

SpecTransform == InitTransform /\ [][NextTransform]_vars

(***************************************************************************)
(* Properties of the transformation detector                               *)
(***************************************************************************)
HasDetected == pc \in {"detected", "applied"}

RECURSIVE LeafFields(_, _)
RECURSIVE ItemLeafFields(_, _, _)
\* the leaves of the sequence v, which stands under the key field
ItemLeafFields(v, prefix, field) ==
    UNION { IF v.items[i].t = "dict"
            THEN LeafFields(v.items[i], IndexedPath(prefix, i - 1))
            ELSE IF v.items[i].t = "list"
            THEN ItemLeafFields(v.items[i], IndexedPath(prefix, i - 1), field)
            ELSE {[path |-> IndexedPath(prefix, i - 1), field |-> field,
                   value |-> v.items[i]]} :
            i \in DOMAIN v.items }

\* the leaves of the tree v: dotted path, immediate field name and value
LeafFields(v, prefix) ==
    UNION { IF v.m[k].t = "dict" THEN LeafFields(v.m[k], JoinPath(prefix, k))
            ELSE IF v.m[k].t = "list" THEN ItemLeafFields(v.m[k], JoinPath(prefix, k), k)
            ELSE {[path |-> JoinPath(prefix, k), field |-> k, value |-> v.m[k]]} :
            k \in DOMAIN v.m }

\* the dotted paths of the leaves of the tree v
LeafPaths(v, prefix) == { l.path : l \in LeafFields(v, prefix) }

PathSet(paths) == { paths[i] : i \in DOMAIN paths }

\* the records made for fields, and those made for parent objects
FieldRecords ==
    { out.transformations[i] : i \in { j \in DOMAIN out.transformations :
                                          out.transformations[j].value.t # "summary" } }
ParentRecords ==
    { out.transformations[i] : i \in { j \in DOMAIN out.transformations :
                                          out.transformations[j].value.t = "summary" } }

\* C22: two leaf paths fall in the same group only if they have the same
\* immediate field name and the same value, and a leaf whose value is null
\* or the empty string is in no group (an empty mapping has no leaf).
C22_GroupedByFieldAndValue ==
    HasDetected =>
        \A k \in DOMAIN detector.value_paths_map :
            \A i, j \in DOMAIN detector.value_paths_map[k].paths :
                \E l, m \in LeafFields(args.merged_config, EmptyStr) :
                    /\ l.path = detector.value_paths_map[k].paths[i]
                    /\ m.path = detector.value_paths_map[k].paths[j]
                    /\ l.field = m.field
                    /\ l.value = m.value
                    /\ l.value.t # "none"
                    /\ l.value # StrVal("")

\* C13: detect_duplicate_values never reports a group of size 1: every
\* group it turns into records holds at least two distinct leaf paths of
\* the merged tree, every field record is between two distinct paths of one
\* such group, and a value that occurs at a single path gives no record.
C13_NoSingletonGroup ==
    HasDetected =>
        /\ \A k \in DOMAIN out.groups :
              /\ Cardinality(PathSet(out.groups[k].paths)) >= 2
              /\ PathSet(out.groups[k].paths) \subseteq LeafPaths(args.merged_config, EmptyStr)
        /\ \A t \in FieldRecords :
              /\ t.old_path # t.new_path
              /\ \E k \in DOMAIN out.groups :
                    {t.old_path, t.new_path} \subseteq PathSet(out.groups[k].paths)
        /\ \A k \in DOMAIN detector.value_paths_map :
              Len(detector.value_paths_map[k].paths) = 1 =>
                  \A t \in FieldRecords :
                      detector.value_paths_map[k].paths[1] \in {t.old_path, t.new_path} =>
                          \E j \in DOMAIN out.groups :
                              detector.value_paths_map[k].paths[1]
                                  \in PathSet(out.groups[j].paths)

\* the value the tree holds at the keys a, x (None when there is none)
LeafAt(config, a, x) == _get_value_at_path(config, <<a, x>>)

\* Scenario D: the merged tree has a.x = v and b.x = v, no other leaf x of
\* that value, and the reference holds b.x only
ScenarioD ==
    /\ HasDetected
    /\ templateNew = Dict(<<"b">> :> Dict(<<"x">> :> StrVal("")))
    /\ LeafAt(args.merged_config, "a", "x") \in FieldValues
    /\ LeafAt(args.merged_config, "b", "x") = LeafAt(args.merged_config, "a", "x")
    /\ \A p \in LeafPaths(args.merged_config, EmptyStr) :
          (p[Len(p)] = "x"
              /\ _get_value_at_path(args.merged_config, p) = LeafAt(args.merged_config, "a", "x"))
          => p \in {<<"a", "x">>, <<"b", "x">>}

MoveRecords ==
    { out.transformations[i] : i \in { j \in DOMAIN out.transformations :
                                          out.transformations[j].recommendation = "move" } }

\* the number of fields of the object a of the merged tree
FieldsOfA == Cardinality(DOMAIN args.merged_config.m[<<"a">>].m)

\* applying the one record removes a when x was its only field, and b.x
\* keeps its value
ScenarioDApplied ==
    (pc = "applied" /\ FieldsOfA = 1) =>
        /\ <<"a">> \notin DOMAIN out.applied.m
        /\ LeafAt(out.applied, "b", "x") = LeafAt(args.merged_config, "b", "x")

\* C14 as stated: in Scenario D detect_duplicate_values gives one move
\* record, from a.x to b.x with confidence high, and applying it removes a
\* entirely when x was its only field while b.x keeps v.
C14_MoveFromField ==
    ScenarioD =>
        /\ MoveRecords = { TransformationRecord(<<"a", "x">>, <<"b", "x">>,
                                LeafAt(args.merged_config, "a", "x"), "move", "high") }
        /\ ScenarioDApplied

\* C14 amended: in Scenario D detect_duplicate_values gives one move
\* record of confidence high: from a.x to b.x when x is less than half of
\* the fields of a, and otherwise for the object a as a whole (to b.*, the
\* value summarised by the number of fields); applying it removes a
\* entirely when x was its only field while b.x keeps v.
C14_MoveFromFieldOrParent ==
    ScenarioD =>
        /\ MoveRecords =
              IF 2 * 1 >= FieldsOfA
              THEN { TransformationRecord(<<"a">>, <<"b", "*">>, ObjectSummary(FieldsOfA),
                                          "move", "high") }
              ELSE { TransformationRecord(<<"a", "x">>, <<"b", "x">>,
                         LeafAt(args.merged_config, "a", "x"), "move", "high") }
        /\ ScenarioDApplied

\* Scenario D with x the only field of a, the record applied
C14_Witness ==
    /\ ScenarioD
    /\ pc = "applied"
    /\ FieldsOfA = 1
    /\ Len(out.selected) = 1
    /\ <<"a">> \notin DOMAIN out.applied.m

\* the node the part of a path (a key, or key[idx]) leads to from the
\* node: a set of one node, or empty when the part leads nowhere
PartNodes(node, part) ==
    IF node.t # "dict" THEN {}
    ELSE { node.m[k] : k \in { k \in DOMAIN node.m : k = <<part>> } }
         \cup { node.m[<<ki[1]>>].items[ki[2] + 1] :
                    ki \in { ki \in ListKeys \X (0..MaxIndex) :
                                /\ part = IndexedPart(ki[1], ki[2])
                                /\ <<ki[1]>> \in DOMAIN node.m
                                /\ node.m[<<ki[1]>>].t = "list"
                                /\ ki[2] < Len(node.m[<<ki[1]>>].items) } }

RECURSIVE ResolvesIn(_, _)
\* the parts of the path lead, one by one, to a node of the tree
ResolvesIn(tree, path) ==
    IF path = <<>> THEN TRUE
    ELSE \E n \in PartNodes(tree, Head(path)) : ResolvesIn(n, Tail(path))

\* how many of the paths exist in templateNew
PresentCount(paths) ==
    Cardinality({ i \in DOMAIN paths : ResolvesIn(templateNew, paths[i]) })

\* how often the path occurs among the paths
Occurrences(paths, p) == Cardinality({ i \in DOMAIN paths : paths[i] = p })

\* the records are KeepBoth records of the given confidence between the
\* consecutive pairs of the paths in sorted order
KeepBothChain(records, paths, confidence) ==
    /\ Len(records) = Len(paths) - 1
    /\ \A i \in DOMAIN records :
          /\ records[i].recommendation = "keep_both"
          /\ records[i].confidence = confidence
          /\ ~TextLess(PathChars(records[i].new_path), PathChars(records[i].old_path), 1)
          /\ i < Len(records) => records[i].new_path = records[i + 1].old_path
    /\ \A p \in PathSet(paths) :
          Occurrences(paths, p) =
              Occurrences([i \in 1..Len(paths) |->
                              IF i = 1 THEN records[1].old_path
                              ELSE records[i - 1].new_path], p)

\* every Move record of the groups has an old path absent from templateNew
\* and a new path present in it
MovesTowardsReference ==
    \A k \in DOMAIN out.analysed : \A i \in DOMAIN out.analysed[k] :
        out.analysed[k][i].recommendation = "move" =>
            /\ ~ResolvesIn(templateNew, out.analysed[k][i].old_path)
            /\ ResolvesIn(templateNew, out.analysed[k][i].new_path)

\* two or more paths present give KeepBoth records of confidence medium,
\* none present gives KeepBoth records of confidence low
KeepBothCases(k) ==
    /\ PresentCount(out.groups[k].paths) >= 2 =>
          KeepBothChain(out.analysed[k], out.groups[k].paths, "medium")
    /\ PresentCount(out.groups[k].paths) = 0 =>
          KeepBothChain(out.analysed[k], out.groups[k].paths, "low")

\* C19 as stated: a group with exactly one path present in templateNew
\* gives one Move record, from the absent path to the present path with
\* confidence high; two or more present give only KeepBoth records of
\* confidence medium between consecutive pairs of the sorted paths; none
\* present gives only KeepBoth records of confidence low; every Move record
\* has an old path absent from templateNew and a new path present in it.
C19_OneMovePerGroup ==
    HasDetected =>
        /\ \A k \in DOMAIN out.groups :
              /\ PresentCount(out.groups[k].paths) = 1 =>
                    /\ Len(out.analysed[k]) = 1
                    /\ out.analysed[k][1].recommendation = "move"
                    /\ out.analysed[k][1].confidence = "high"
              /\ KeepBothCases(k)
        /\ MovesTowardsReference

\* C19 amended: a group with exactly one path present in templateNew gives
\* one Move record for each of its absent paths, from that path to the
\* present path with confidence high and the shared value; two or more
\* present give only KeepBoth records of confidence medium between
\* consecutive pairs of the sorted paths; none present gives only KeepBoth
\* records of confidence low; every Move record of a group has an old path
\* absent from templateNew and a new path present in it.
C19_OneMovePerAbsentPath ==
    HasDetected =>
        /\ \A k \in DOMAIN out.groups :
              /\ PresentCount(out.groups[k].paths) = 1 =>
                    /\ Len(out.analysed[k]) = Len(out.groups[k].paths) - 1
                    /\ \A p \in PathSet(out.groups[k].paths) :
                          ~ResolvesIn(templateNew, p) =>
                              \E i \in DOMAIN out.analysed[k] :
                                  /\ out.analysed[k][i].old_path = p
                                  /\ out.analysed[k][i].recommendation = "move"
                                  /\ out.analysed[k][i].confidence = "high"
                                  /\ out.analysed[k][i].value =
                                         detector.path_value_map[p]
              /\ KeepBothCases(k)
        /\ MovesTowardsReference

\* a group of three paths of which one is present, and groups of the two
\* other kinds
C19_Witness ==
    /\ HasDetected
    /\ \E k \in DOMAIN out.groups :
          /\ Len(out.groups[k].paths) = 3
          /\ PresentCount(out.groups[k].paths) = 1
          /\ Len(out.analysed[k]) = 2
    /\ \E k \in DOMAIN out.groups :
          /\ PresentCount(out.groups[k].paths) = 0
          /\ out.analysed[k] # <<>>

RECURSIVE Subtree(_, _)
\* the node the segments of the path lead to (None when they lead nowhere)
Subtree(tree, path) ==
    IF path = <<>> THEN tree
    ELSE IF PartNodes(tree, Head(path)) # {}
    THEN Subtree(CHOOSE n \in PartNodes(tree, Head(path)) : TRUE, Tail(path))
    ELSE None

\* the records made for the groups, before whole-object detection
AnalysedRecords == UNION { PathSet(out.analysed[k]) : k \in DOMAIN out.analysed }

\* the parent object of a field: the mapping that holds the field or, for
\* a path that goes through a sequence, the mapping that holds the key of
\* its first sequence (the empty path when the root holds it)
FieldParent(path) ==
    LET ks == {Len(path)} \cup { k \in DOMAIN path : IndexMatches(path[k]) # {} }
    IN  SubSeq(path, 1, (CHOOSE k \in ks : \A j \in ks : k <= j) - 1)

\* the Move records of the fields directly under the parent
MovedUnder(parent) ==
    { r \in AnalysedRecords : /\ r.recommendation = "move"
                              /\ FieldParent(r.old_path) = parent }

\* the parents of the fields that have a Move record
MoveParents ==
    { FieldParent(r.old_path) :
          r \in { q \in AnalysedRecords : q.recommendation = "move" } } \ {<<>>}

\* the number of leaf fields of the object at the path of the merged tree
LeafCount(parent) ==
    IF Subtree(args.merged_config, parent).t = "dict"
    THEN Cardinality(LeafPaths(Subtree(args.merged_config, parent), EmptyStr))
    ELSE 0

\* at least 50% of the leaf fields of the parent have a Move record and the
\* parent is absent from templateNew
Qualifies(parent) ==
    /\ LeafCount(parent) > 0
    /\ 2 * Cardinality(MovedUnder(parent)) >= LeafCount(parent)
    /\ ~ResolvesIn(templateNew, parent)

LiesUnder(path, parent) ==
    /\ Len(path) > Len(parent)
    /\ SubSeq(path, 1, Len(parent)) = parent

\* one record is returned for the parent: a Move of confidence high whose
\* value is summarised as an object with its number of leaf fields
OneParentRecord(parent) ==
    /\ Cardinality({ i \in DOMAIN out.transformations :
                        out.transformations[i].old_path = parent }) = 1
    /\ \E t \in ParentRecords :
          /\ t.old_path = parent
          /\ t.value = ObjectSummary(LeafCount(parent))
          /\ t.recommendation = "move"
          /\ t.confidence = "high"

\* no field-level record is returned for a descendant of an emitted parent
NoRecordUnderParent ==
    \A t \in FieldRecords : \A q \in ParentRecords : ~LiesUnder(t.old_path, q.old_path)

\* C20 as stated: a parent with at least 50% of its leaf fields subject to
\* a Move and absent from templateNew gets a single Move record (value
\* summarised as an object with N fields, confidence high) in place of its
\* per-field Move records, no field-level record is returned for a
\* descendant of an emitted parent record, and a parent below 50% or
\* present in templateNew keeps its per-field records.
C20_ParentInPlaceOfFields ==
    HasDetected =>
        /\ \A parent \in MoveParents :
              IF Qualifies(parent)
              THEN /\ OneParentRecord(parent)
                   /\ MovedUnder(parent) \cap FieldRecords = {}
              ELSE /\ MovedUnder(parent) \subseteq FieldRecords
                   /\ \A q \in ParentRecords : q.old_path # parent
        /\ NoRecordUnderParent

\* C20 amended: as stated, except that a parent below 50% or present in
\* templateNew keeps its per-field records only when no parent record is
\* emitted for one of its ancestors; under an emitted ancestor its
\* per-field records are dropped as well.
C20_ParentInPlaceOfFieldsUnlessUnderParent ==
    HasDetected =>
        /\ \A parent \in MoveParents :
              IF Qualifies(parent)
              THEN /\ OneParentRecord(parent)
                   /\ MovedUnder(parent) \cap FieldRecords = {}
              ELSE /\ \A q \in ParentRecords : q.old_path # parent
                   /\ IF \E q \in ParentRecords : LiesUnder(parent, q.old_path)
                      THEN MovedUnder(parent) \cap FieldRecords = {}
                      ELSE MovedUnder(parent) \subseteq FieldRecords
        /\ NoRecordUnderParent

\* a parent record emitted for a while the object a.b under it, below 50%,
\* has lost its Move record
C20_Witness ==
    /\ HasDetected
    /\ Qualifies(<<"a">>)
    /\ OneParentRecord(<<"a">>)
    /\ <<"a", "b">> \in MoveParents
    /\ ~Qualifies(<<"a", "b">>)
    /\ MovedUnder(<<"a", "b">>) # {}
    /\ MovedUnder(<<"a", "b">>) \cap FieldRecords = {}

\* the records applied, in the order apply_transformations takes them
Processed == SortedTransformations(out.selected)

\* the tree after the first i records were processed
AppliedUpTo(i) == ApplyLoop(args.merged_config, SubSeq(Processed, 1, i), 1)

\* the leaves of the tree that are not at or under the path
LeavesOutside(tree, path) ==
    { l \in LeafFields(tree, EmptyStr) : l.path # path /\ ~LiesUnder(l.path, path) }

\* the keys and indices the path goes through, one after the other
Chain(path) == _parse_path_segments(path)

\* the path goes through a sequence
Indexed(path) == \E k \in DOMAIN path : IndexMatches(path[k]) # {}

RECURSIVE NodeAt(_, _)
\* the node the segments lead to in a tree that has them
NodeAt(tree, segments) ==
    IF segments = <<>> THEN tree
    ELSE NodeAt(AtSegment(tree, Head(segments)), Tail(segments))

\* the number of entries of a container
Size(node) == IF node.t = "list" THEN Len(node.items) ELSE Cardinality(DOMAIN node.m)

\* deleting the path from the tree leaves empty the container that its
\* first n segments lead to: it and every container between it and the
\* path hold nothing but the next one on the chain
LeftEmpty(tree, path, n) ==
    \A k \in n..(Len(Chain(path)) - 1) :
        Size(NodeAt(tree, SubSeq(Chain(path), 1, k))) = 1

\* the number of segments of the topmost node that deleting the path takes
\* away: the topmost container left empty, or else the path itself
TopRemoved(tree, path) ==
    CHOOSE n \in 1..Len(Chain(path)) :
        /\ LeftEmpty(tree, path, n)
        /\ \A k \in 1..(n - 1) : ~LeftEmpty(tree, path, k)

\* the sequence without its item of index idx
ItemRemoved(items, idx) == SubSeq(items, 1, idx) \o SubSeq(items, idx + 2, Len(items))

\* the position of the first index among the segments
FirstIndex(segments) ==
    CHOOSE k \in DOMAIN segments :
        IsIndex(segments[k]) /\ \A j \in 1..(k - 1) : ~IsIndex(segments[j])

\* the position the new path has in the sequence its first n - 1 segments
\* lead to when those are the segments given (0 when it is elsewhere)
PositionIn(new_path, segments, n) ==
    IF /\ Len(Chain(new_path)) >= n
       /\ SubSeq(Chain(new_path), 1, n - 1) = SubSeq(segments, 1, n - 1)
       /\ IsIndex(Chain(new_path)[n])
    THEN Chain(new_path)[n].idx + 1
    ELSE 0

\* the record took an item out of a sequence of the tree before: the
\* sequence of the tree after is the old one without the item at the
\* recorded index, but for the item the new path goes through, and it is
\* gone when that was its only item
ItemTaken(before, after, record) ==
    LET segments == Chain(record.old_path)
        n == FirstIndex(segments)
        holder == SubSeq(segments, 1, n - 1)
    IN  (n = Len(segments) \/ LeftEmpty(before, record.old_path, n)) =>
            IF Len(NodeAt(before, holder).items) = 1
            THEN ~ExistsFrom(after, holder, 1)
            ELSE
            /\ ExistsFrom(after, holder, 1)
            /\ NodeAt(after, holder).t = "list"
            /\ Len(NodeAt(after, holder).items) = Len(NodeAt(before, holder).items) - 1
            /\ \A j \in DOMAIN NodeAt(after, holder).items :
                  j # PositionIn(record.new_path, segments, n) =>
                      NodeAt(after, holder).items[j]
                          = ItemRemoved(NodeAt(before, holder).items, segments[n].idx)[j]

Holder(tree, path) == SubSeq(Chain(path), 1, TopRemoved(tree, path) - 1)

\* C24: after apply_transformations deletes an old path, every container
\* on the ancestor chain of the path that the deletion left empty is
\* removed from the result, and no ancestor that still holds other content
\* is removed: the container of the topmost one left empty (of the path
\* itself when there is none) is still there, with one entry less.
C24_EmptyAncestorsRemoved ==
    pc = "applied" =>
        \A i \in DOMAIN Processed :
            _path_exists_in_config(Processed[i].old_path, AppliedUpTo(i - 1)) =>
                /\ ExistsFrom(AppliedUpTo(i),
                              Holder(AppliedUpTo(i - 1), Processed[i].old_path), 1)
                /\ Size(NodeAt(AppliedUpTo(i),
                               Holder(AppliedUpTo(i - 1), Processed[i].old_path)))
                      = Size(NodeAt(AppliedUpTo(i - 1),
                                    Holder(AppliedUpTo(i - 1), Processed[i].old_path))) - 1
                /\ ~IsIndex(Chain(Processed[i].old_path)[
                                TopRemoved(AppliedUpTo(i - 1), Processed[i].old_path)]) =>
                       ~HasSegment(NodeAt(AppliedUpTo(i),
                                          Holder(AppliedUpTo(i - 1), Processed[i].old_path)),
                                   Chain(Processed[i].old_path)[
                                       TopRemoved(AppliedUpTo(i - 1), Processed[i].old_path)])

\* a deletion that left one ancestor empty, which was removed, and one
\* with other content, which was kept
C24_Witness ==
    /\ pc = "applied"
    /\ \E i \in DOMAIN Processed :
          /\ _path_exists_in_config(Processed[i].old_path, AppliedUpTo(i - 1))
          /\ TopRemoved(AppliedUpTo(i - 1), Processed[i].old_path) > 1
          /\ TopRemoved(AppliedUpTo(i - 1), Processed[i].old_path)
                < Len(Chain(Processed[i].old_path))
          /\ ~ExistsFrom(AppliedUpTo(i),
                         SubSeq(Chain(Processed[i].old_path), 1,
                                TopRemoved(AppliedUpTo(i - 1), Processed[i].old_path)), 1)
          /\ ExistsFrom(AppliedUpTo(i),
                        Holder(AppliedUpTo(i - 1), Processed[i].old_path), 1)

\* C25: detection runs are independent: a call of detect_duplicate_values
\* on a detector that has already processed a tree (the same or another
\* one) returns the same records as the same call on a fresh detector.
C25_RunsIndependent ==
    pc = "detected again" =>
        out.transformations
            = detect_duplicate_values(NewDetector, out.merged_config,
                                      templateNew).transformations

\* the selected records whose old path goes through a sequence
IndexedRecords == { r \in PathSet(out.selected) : Indexed(r.old_path) }

\* the sequences of the input that selected records address
SequencesAddressed ==
    { SubSeq(Chain(r.old_path), 1, FirstIndex(Chain(r.old_path)) - 1) : r \in IndexedRecords }

\* the indices recorded for the sequence at holder by the selected records
\* that take an item out of it: the old path is the item, or the one field
\* of the item
RecordedIndices(holder) ==
    { Chain(r.old_path)[Len(holder) + 1].idx :
          r \in { q \in IndexedRecords :
                     /\ FirstIndex(Chain(q.old_path)) = Len(holder) + 1
                     /\ SubSeq(Chain(q.old_path), 1, Len(holder)) = holder
                     /\ \/ Len(Chain(q.old_path)) = Len(holder) + 1
                        \/ LeftEmpty(args.merged_config, q.old_path, Len(holder) + 1) } }

RECURSIVE ItemsKept(_, _, _)
\* the items, from the i-th on, whose indices are not among the given ones
ItemsKept(items, indices, i) ==
    IF i > Len(items) THEN <<>>
    ELSE (IF (i - 1) \in indices THEN <<>> ELSE <<items[i]>>)
         \o ItemsKept(items, indices, i + 1)

\* C29: apply_transformations removes exactly what the input holds at the
\* old paths of the given records (plus containers left empty): an empty
\* record list returns an equal tree; when several records address items of
\* one sequence, the items removed are those that stood at the recorded
\* indices in the input; and every leaf value of the input that is not at
\* or under an old path is still present in the result.  (The input itself
\* is never written to: the result is built from a copy.)
C29_RemovesWhatInputHolds ==
    pc = "applied" =>
        /\ apply_transformations(args.merged_config, <<>>) = args.merged_config
        /\ \A holder \in SequencesAddressed :
              IF ItemsKept(NodeAt(args.merged_config, holder).items,
                           RecordedIndices(holder), 1) = <<>>
              THEN ~ExistsFrom(out.applied, holder, 1)
              ELSE /\ ExistsFrom(out.applied, holder, 1)
                   /\ NodeAt(out.applied, holder)
                         = ListVal(ItemsKept(NodeAt(args.merged_config, holder).items,
                                             RecordedIndices(holder), 1))
        /\ \A l \in LeafFields(args.merged_config, EmptyStr) :
              (\A r \in PathSet(out.selected) :
                   r.old_path # l.path /\ ~LiesUnder(l.path, r.old_path))
                  => \E m \in LeafFields(out.applied, EmptyStr) : m.value = l.value

\* every Move record that was detected has been applied
AllMovesApplied ==
    /\ pc = "applied"
    /\ PathSet(out.selected) = MoveRecords

\* C30: detecting and then applying all Move records never loses a value:
\* every non-empty scalar leaf value of the merged tree is still present,
\* under its field name, at some path of the resulting tree, the fields of
\* a parent object removed by a whole-object Move included.
C30_NoValueLost ==
    AllMovesApplied =>
        \A l \in LeafFields(args.merged_config, EmptyStr) :
            (l.value.t # "none" /\ l.value # StrVal("")) =>
                \E m \in LeafFields(out.applied, EmptyStr) :
                    m.field = l.field /\ m.value = l.value

(***************************************************************************)
(* Direct calls of MergeEngine.apply_migrations, of the two                *)
(* validate_migration_map and of MergeEngine.resolve_conflicts.  The       *)
(* deltas are given as a custom_data dictionary in any insertion order.    *)
(***************************************************************************)
MaxDeltas == 2
CallPaths == {<<"a">>, <<"b">>, <<"c">>}
CallValues == {IntVal(1), IntVal(2)}

\* the sequences of at most n distinct members of S
DistinctSeqs(S, n) ==
    UNION { { q \in [1..k -> S] : \A i, j \in 1..k : q[i] = q[j] => i = j } : k \in 0..n }

\* the dictionaries of at most MaxDeltas deltas, in every insertion order
CustomDatas ==
    UNION { { [ks |-> ks, m |-> [q \in { ks[i] : i \in DOMAIN ks } |->
                                   vs[CHOOSE i \in DOMAIN ks : ks[i] = q]]] :
                  vs \in [DOMAIN ks -> CallValues] } : ks \in DistinctSeqs(CallPaths, MaxDeltas) }

\* the rename maps of at most MaxDeltas pairs between the delta paths
CallMaps ==
    UNION { [D -> CallPaths] : D \in { X \in SUBSET CallPaths : Cardinality(X) <= MaxDeltas } }

RECURSIVE EngineWalk(_, _, _, _, _)
\* the while loop of MergeEngine.validate_migration_map: follow the map from
\* current_path until it leaves the map, meets the chain again or meets a
\* key whose own chain was walked before; steps counts the iterations
EngineWalk(map, current_path, path_chain, visited, steps) ==
    IF current_path \notin DOMAIN map
    THEN [errors |-> {}, steps |-> steps]
    ELSE IF \E i \in DOMAIN path_chain : path_chain[i] = map[current_path]
    THEN [errors |-> {"circular migration"}, steps |-> steps + 1]
    ELSE IF map[current_path] \in visited
    THEN [errors |-> {}, steps |-> steps + 1]
    ELSE EngineWalk(map, map[current_path], Append(path_chain, map[current_path]),
                    visited, steps + 1)

\* the cycle check of the engine left out (a changed program, for
\* comparison)
EngineNoCircularCheck(map, keys, i, visited, steps) == [errors |-> {}, steps |-> steps]

RECURSIVE EngineCircularLoop(_, _, _, _, _)
\* the for loop of MergeEngine.validate_migration_map over the keys of the map
EngineCircularLoop(map, keys, i, visited, steps) ==
    IF i > Len(keys) THEN [errors |-> {}, steps |-> steps]
    ELSE LET w == EngineWalk(map, keys[i], <<keys[i]>>, visited, steps)
             rest == EngineCircularLoop(map, keys, i + 1, visited \cup {keys[i]}, w.steps)
         IN  [errors |-> w.errors \cup rest.errors, steps |-> rest.steps]

\* MergeEngine.validate_migration_map: the kinds of the errors it returns
\* and the number of iterations of its while loop
MergeEngine_validate_migration_map(map) ==
    LET circular == EngineCircularLoop(map, SortKeys(DOMAIN map, MapKeyOrder), 1, {}, 0)
    IN  [errors |-> circular.errors
                    \cup UNION { IF path = EmptyStr \/ BadFormat(path)
                                 THEN {"invalid path format"} ELSE {} :
                                 path \in DOMAIN map \cup { map[k] : k \in DOMAIN map } },
         steps |-> circular.steps]

\* the rename maps the two validations are tried on: any map of at most
\* MaxRenames of the keys to the keys or to one more path
MaxRenames == 3
RenamedKeys == {<<"a">>, <<"b">>, <<"annotations">>}
RenameTargets == RenamedKeys \cup {<<"a", "annotations">>}
ValidatedMaps ==
    UNION { [D -> RenameTargets] : D \in { X \in SUBSET RenamedKeys : Cardinality(X) <= MaxRenames } }
ValidateCalls == [call : {"validate_migration_map"}, migration_map : ValidatedMaps]

ApplyCalls == [call : {"apply_migrations"}, custom_data : CustomDatas, migration_map : CallMaps]

\* the deltas resolve_conflicts is tried on: a rename map can leave a delta
\* at a path and another at a path under it
ResolvePaths == {<<"a">>, <<"b">>, <<"b", "c">>}
ResolveDatas ==
    UNION { { [ks |-> ks, m |-> [q \in { ks[i] : i \in DOMAIN ks } |->
                                   vs[CHOOSE i \in DOMAIN ks : ks[i] = q]]] :
                  vs \in [DOMAIN ks -> CallValues] } : ks \in DistinctSeqs(ResolvePaths, MaxDeltas) }
ResolveTemplates ==
    { EmptyDict,
      Dict(<<"b">> :> IntVal(0)),
      Dict(<<"b">> :> Dict(<<"c">> :> IntVal(0))),
      Dict((<<"a">> :> IntVal(0)) @@ (<<"b">> :> IntVal(0))),
      Dict((<<"a">> :> IntVal(0)) @@ (<<"b">> :> Dict(<<"c">> :> IntVal(0)))) }
ResolveCalls == [call : {"resolve_conflicts"}, custom_data : ResolveDatas]

\* the orders the items of a dictionary can be listed in
Orders(ks) ==
    { q \in [DOMAIN ks -> { ks[i] : i \in DOMAIN ks }] :
          \A i, j \in DOMAIN ks : q[i] = q[j] => i = j }

InitEngine ==
    /\ pc = "start"
    /\ out = <<>>
    /\ detector = NewDetector
    /\ golden = EmptyDict
    /\ migrationMap = <<>>
    /\ signals = <<>>
    /\ \/ /\ args \in ApplyCalls
          /\ templateOld = EmptyDict
          /\ templateNew = EmptyDict
       \/ /\ args \in ValidateCalls
          /\ templateOld = EmptyDict
          /\ templateNew = EmptyDict
       \/ /\ args \in ResolveCalls
          /\ templateOld \in ResolveTemplates
          /\ templateNew \in ResolveTemplates

\* a caller runs apply_migrations(custom_data, migration_map)
ApplyMigrations ==
    /\ pc = "start"
    /\ args.call = "apply_migrations"
    /\ out' = [migrated_data |-> apply_migrations(args.custom_data, args.migration_map)]
    /\ pc' = "migrated"
    /\ UNCHANGED <<golden, templateOld, templateNew, migrationMap, args, signals, detector>>

\* resolve_conflicts(custom_data, template_new, template_old) with the items
\* of custom_data in the order ks: the result as pure values
Resolved(ks) ==
    LET o == Alloc(<<>>, templateOld, KeyOrder)
        n == Alloc(o.h, templateNew, KeyOrder)
        r == resolve_conflicts(n.h, [ks |-> ks, m |-> args.custom_data.m], n.c, o.c)
    IN  [exc |-> r.exc, order |-> ks,
         final_config |-> IF r.exc = "none" THEN Pure(r.h, r.final) ELSE None,
         conflict_log |-> IF r.exc = "none" THEN PureLog(r.h, r.log) ELSE <<>>]

\* a caller runs resolve_conflicts on the deltas and the two templates
ResolveConflicts ==
    /\ pc = "start"
    /\ args.call = "resolve_conflicts"
    /\ out' = [first |-> Resolved(args.custom_data.ks), second |-> <<>>]
    /\ pc' = "resolved"
    /\ UNCHANGED <<golden, templateOld, templateNew, migrationMap, args, signals, detector>>

\* the caller runs it again on the same deltas and templates, the deltas
\* listed in some order
ResolveReordered ==
    /\ pc = "resolved"
    /\ \E ks \in Orders(args.custom_data.ks) :
           out' = [out EXCEPT !.second = Resolved(ks)]
    /\ pc' = "resolved again"
    /\ UNCHANGED <<golden, templateOld, templateNew, migrationMap, args, signals, detector>>

\* a caller validates the rename map with the engine and with the validator
ValidateMap ==
    /\ pc = "start"
    /\ args.call = "validate_migration_map"
    /\ out' = [engine |-> MergeEngine_validate_migration_map(args.migration_map),
               validator |-> validate_migration_map(args.migration_map)]
    /\ pc' = "validated"
    /\ UNCHANGED <<golden, templateOld, templateNew, migrationMap, args, signals, detector>>

NextEngine == ApplyMigrations \/ ResolveConflicts \/ ResolveReordered \/ ValidateMap

SpecEngine == InitEngine /\ [][NextEngine]_vars

(***************************************************************************)
(* Properties of the direct calls                                          *)
(***************************************************************************)
\* where apply_migrations is to put the delta of the path
MappedTarget(path) ==
    IF path \in DOMAIN args.migration_map THEN args.migration_map[path] ELSE path

\* C15: apply_migrations replaces each delta's path by its mapped target
\* path and passes unmapped deltas through unchanged: for every input delta
\* (p, v) the result holds v at map[p] when p is a key of the map and at p
\* otherwise, so no input delta's value is missing from the result.
C15_EveryDeltaAtItsTarget ==
    pc = "migrated" =>
        \A p \in DOMAIN args.custom_data.m :
            /\ MappedTarget(p) \in DOMAIN out.migrated_data.m
            /\ out.migrated_data.m[MappedTarget(p)] = args.custom_data.m[p]

\* the entries of a conflict log, as a set
LogEntries(log) == { log[i] : i \in DOMAIN log }

\* C17: the merge is order-independent: for fixed templates and deltas,
\* resolve_conflicts produces the same final tree and the same set of
\* conflict-log entries whatever order the deltas are processed in, each
\* delta path being resolved once.
C17_OrderIndependent ==
    pc = "resolved again" =>
        /\ out.second.exc = out.first.exc
        /\ out.second.final_config = out.first.final_config
        /\ LogEntries(out.second.conflict_log) = LogEntries(out.first.conflict_log)
        /\ \A p \in DOMAIN args.custom_data.m :
              Cardinality({ i \in DOMAIN out.first.conflict_log :
                               out.first.conflict_log[i].path = p }) <= 1

\* C16: for every finite rename map both validate_migration_map terminate
\* (the engine's loop runs at most once per pair of the map for each key,
\* the validator's chain never holds a path twice) and each reports a
\* circular-migration error if and only if following old-to-new links from
\* some key of the map makes a path reappear, self-maps included.
C16_CircularIffCycle ==
    pc = "validated" =>
        /\ ("circular migration" \in out.engine.errors) <=> HasCycle(args.migration_map)
        /\ ("circular migration" \in out.validator) <=> HasCycle(args.migration_map)
        /\ out.engine.steps <= Cardinality(DOMAIN args.migration_map)
                                  * Cardinality(DOMAIN args.migration_map)
        /\ \A k \in DOMAIN args.migration_map :
              Len(WalkChain(args.migration_map, k, <<>>).path_chain)
                  <= Cardinality(DOMAIN args.migration_map)

\* a map of three pairs validated in which a chain leads into a cycle of
\* two, reported by both
C16_Witness ==
    /\ pc = "validated"
    /\ Cardinality(DOMAIN args.migration_map) = 3
    /\ \E p \in DOMAIN args.migration_map :
          /\ ~Reaches(args.migration_map, p, p, 3)
          /\ Reaches(args.migration_map, args.migration_map[p], args.migration_map[p], 3)
    /\ "circular migration" \in out.engine.errors
    /\ "circular migration" \in out.validator
====
